---- MODULE Spec2Model ----
(***************************************************************************)
(* A model of github.com/UNO-SOFT/filecache: the Cache facade of           *)
(* cache.go (Put, Get, GetBytes, GetFile, Trim and the trimmer) over the   *)
(* sharded cache directory it keeps with go-internal/cache.                *)
(*                                                                         *)
(* Time is counted in ticks of one global clock (C.now and the file        *)
(* system's modification times read the same clock, as with the default    *)
(* time.Now).  Sizes are in bytes.  A value is named by a small number;    *)
(* a content file is named by the hash of its value, so its bytes are the  *)
(* first `size` bytes of that value.                                       *)
(***************************************************************************)
EXTENDS Integers, Sequences, FiniteSets, TLC

\* ------------------------------------------------------------ bounds
MaxClock == 4
NumShards == 2
MaxCalls == 2
MaxArgs == 2
MaxArgLen == 2

\* The action descriptions and the contents of the model.
Keys == {1, 2}
Vals == {1, 2}
Handles == {1, 2}
Shards == 0..(NumShards - 1)

\* ------------------------------------------------------------ identifiers
\* SumID stands for sha256.Sum256: a fixed function, injective on the
\* descriptions and contents of the model (1..8), into an identifier space
\* whose leading part selects the shard.
SumID(p) == (p * 5 + 3) % 8
NewActionID(p) == SumID(p)
ShardOf(id) == id \div 4

\* Length in bytes of value v: only one value (the empty one) has length 0.
Size(v) == (v - 1) * 400

\* Length of an index record "v1 <hex> <hex> <size> <time>\n".
entrySize == 175
\* A read refreshes a file's mtime only when it is at least this old.
mtimeInterval == 2

\* ------------------------------------------------------------ configuration
\* The option sets the handles are opened with (WithTrimInterval,
\* WithTrimLimit, WithTrimSize, WithMaxSize); every handle of one
\* directory uses the same options.
Configs ==
  { [trimInterval |-> 2, trimLimit |-> 3, trimSize |-> 300, maxSize |-> 0],
    [trimInterval |-> 2, trimLimit |-> 3, trimSize |-> 100, maxSize |-> 0],
    [trimInterval |-> 0, trimLimit |-> 3, trimSize |-> 0,   maxSize |-> 500] }

VARIABLES
  clock,     \* the time, in ticks
  cfg,       \* the options of the handles
  dir,       \* the -a and -d files of the shard directories
  trimTxt,   \* the file dir/trim.txt
  lastTrim,  \* C.lastTrim of each handle
  calls,     \* the number of calls made
  last,      \* the last call made and what it returned
  pc,        \* where each goroutine is in the call it is making
  hof,       \* the handle each goroutine calls
  mu,        \* C.mu of each handle: the goroutine holding it, or 0
  lock,      \* the lock of trim.txt: the goroutine holding it, or 0
  puts,      \* the pairs <<k, v>> of the Put calls made so far
  srv,       \* the entries of the server the command wrapper is given
  fc         \* a FileCache (filecache.go): its ristretto cache and files

vars == <<clock, cfg, dir, trimTxt, lastTrim, calls, last,
          pc, hof, mu, lock, puts, srv, fc>>
\* The state of the goroutines and of the wrapper's server, which the
\* calls of Spec leave alone.
procVars == <<pc, hof, mu, lock, puts, srv, fc>>

\* ------------------------------------------------------------ files
\* The entries are the index files ("a", named after a key's identifier)
\* and the content files ("d", named after a value's identifier).  Beside
\* them the directory may hold files that are not the cache's: one with
\* another suffix in a shard directory ("x", named after an identifier)
\* and one outside the shard directories ("o").
ForeignNames == {<<"x", 4>>, <<"o", 0>>}
Names == ({"a"} \X Keys) \cup ({"d"} \X Vals) \cup ForeignNames
NoFile == [exists |-> FALSE]
IndexName(k) == <<"a", k>>
DataName(v) == <<"d", v>>
IdOf(nm) == IF nm \in ForeignNames THEN nm[2] ELSE SumID(nm[2])
\* The suffix test that takes every file for an entry.
IsEntryAny(nm) == TRUE
\* strings.HasSuffix(name, "-a") || strings.HasSuffix(name, "-d")
IsEntry(nm) == nm[1] \in {"a", "d"}

\* The value whose content file is named by output id `out`.
ValOfID(out) == CHOOSE v \in Vals : SumID(v) = out

\* Decimal text, as written by fmt.Fprintf("%d") and read by strconv.ParseInt.
\* A byte is a digit 0..9; any other byte is modelled by a number above 9.
RECURSIVE FormatInt(_)
FormatInt(n) == IF n < 10 THEN <<n>> ELSE Append(FormatInt(n \div 10), n % 10)

RECURSIVE ParseDigits(_)
ParseDigits(s) ==
  IF s = <<>> THEN 0
  ELSE 10 * ParseDigits(SubSeq(s, 1, Len(s) - 1)) + s[Len(s)]

ParseInt(s) ==
  IF s = <<>> \/ \E i \in 1..Len(s) : s[i] \notin 0..9
  THEN [ok |-> FALSE, t |-> 0]
  ELSE [ok |-> TRUE, t |-> ParseDigits(s)]

\* bytes.TrimSpace: white space (byte 32 stands for all of it) is cut from
\* both ends.
RECURSIVE TrimSpace(_)
TrimSpace(s) ==
  IF s = <<>> THEN s
  ELSE IF Head(s) = 32 THEN TrimSpace(Tail(s))
  ELSE IF s[Len(s)] = 32 THEN TrimSpace(SubSeq(s, 1, Len(s) - 1))
  ELSE s

\* The zero time.Time of a fresh handle.
ZeroTime == 0 - 1
IsZero(t) == t < 0

\* ------------------------------------------------------------ the store
\* The operations of go-internal/cache.Cache that cache.go delegates to,
\* as functions of the directory d.

\* used: the best-effort refresh of a file's mtime on access.
used(d, nm, now) ==
  IF d[nm].exists /\ now - d[nm].mtime >= mtimeInterval
  THEN [d EXCEPT ![nm].mtime = now]
  ELSE d

\* c.Get: read and parse the index file of k.
cGet(d, k, now) ==
  LET f == d[IndexName(k)] IN
  IF f.exists /\ f.size = entrySize
  THEN [ok |-> TRUE, out |-> f.out, size |-> f.osize,
        d |-> used(d, IndexName(k), now)]
  ELSE [ok |-> FALSE, out |-> 0, size |-> 0, d |-> d]

\* The test of c.GetFile on the content file without the size.
completeAny(f, size) == f.exists
\* The test of c.GetFile on the os.Stat of the content file.
complete(f, size) == f.exists /\ f.size = size

\* c.GetFile that removes the index file when the content file is unusable.
cGetFileCleaning(d, k, now) ==
  LET g == cGet(d, k, now) IN
  IF ~g.ok THEN [ok |-> FALSE, file |-> 0, out |-> 0, size |-> 0, d |-> g.d]
  ELSE LET v  == ValOfID(g.out)
           d2 == used(g.d, DataName(v), now)
           f  == d2[DataName(v)]
       IN IF complete(f, g.size)
          THEN [ok |-> TRUE, file |-> v, out |-> g.out, size |-> g.size, d |-> d2]
          ELSE [ok |-> FALSE, file |-> 0, out |-> 0, size |-> 0,
                d |-> [d2 EXCEPT ![IndexName(k)] = NoFile]]

\* c.GetFile: c.Get, then stat the content file and compare its size.
cGetFile(d, k, now) ==
  LET g == cGet(d, k, now) IN
  IF ~g.ok THEN [ok |-> FALSE, file |-> 0, out |-> 0, size |-> 0, d |-> g.d]
  ELSE LET v  == ValOfID(g.out)
           d2 == used(g.d, DataName(v), now)
           f  == d2[DataName(v)]
       IN IF complete(f, g.size)
          THEN [ok |-> TRUE, file |-> v, out |-> g.out, size |-> g.size, d |-> d2]
          ELSE [ok |-> FALSE, file |-> 0, out |-> 0, size |-> 0, d |-> d2]

\* c.GetBytes: c.Get, then read the content file and compare its hash.
cGetBytes(d, k, now) ==
  LET g == cGet(d, k, now) IN
  IF ~g.ok THEN [ok |-> FALSE, file |-> 0, out |-> 0, size |-> 0, d |-> g.d]
  ELSE LET v  == ValOfID(g.out)
           d2 == used(g.d, DataName(v), now)
           f  == d2[DataName(v)]
       IN IF f.exists /\ f.size = Size(v)
          THEN [ok |-> TRUE, file |-> v, out |-> g.out, size |-> g.size, d |-> d2]
          ELSE [ok |-> FALSE, file |-> 0, out |-> 0, size |-> 0, d |-> d2]

\* copyFile: write the content file unless it is already there, complete.
copyFile(d, v, now) ==
  LET f == d[DataName(v)] IN
  IF f.exists /\ f.size = Size(v) THEN d
  ELSE [d EXCEPT ![DataName(v)] =
          [exists |-> TRUE, size |-> Size(v), mtime |-> now, wtime |-> now]]

\* putIndexEntry that leaves an index file that is already there alone.
putIndexEntryOnce(d, k, v, now) ==
  IF d[IndexName(k)].exists THEN d
  ELSE [d EXCEPT ![IndexName(k)] =
          [exists |-> TRUE, size |-> entrySize, mtime |-> now, wtime |-> now,
           out |-> SumID(v), osize |-> Size(v)]]

\* putIndexEntry: (re)write the index file of k.
putIndexEntry(d, k, v, now) ==
  [d EXCEPT ![IndexName(k)] =
     [exists |-> TRUE, size |-> entrySize, mtime |-> now, wtime |-> now,
      out |-> SumID(v), osize |-> Size(v)]]

\* c.Put: hash the content, copy it, then add the index entry.
cPut(d, k, v, now) == putIndexEntry(copyFile(d, v, now), k, v, now)

\* ------------------------------------------------------------ the trimmer
RECURSIVE SumSizes(_, _)
SumSizes(d, S) ==
  IF S = {} THEN 0
  ELSE LET nm == CHOOSE x \in S : TRUE IN d[nm].size + SumSizes(d, S \ {nm})

\* The files of shard s that exist in d.
Listing(d, s) ==
  {nm \in Names : nm[1] # "o" /\ ShardOf(IdOf(nm)) = s /\ d[nm].exists}

\* The total size of the cache entries on disk.
DiskSize(d) == SumSizes(d, {nm \in Names : IsEntry(nm) /\ d[nm].exists})

\* The test with the age compared by "not after" instead of "before".
EvictNotAfter(f, cutoffTime, cutoffSize, sizeCutoffTime) ==
  \/ f.mtime <= cutoffTime
  \/ (cutoffSize > 0 /\ f.size > cutoffSize /\ f.mtime < sizeCutoffTime)

\* The test without the size rule.
EvictByAge(f, cutoffTime, cutoffSize, sizeCutoffTime) ==
  f.mtime < cutoffTime

\* The test of trimSubdir on one entry's os.Stat.
Evict(f, cutoffTime, cutoffSize, sizeCutoffTime) ==
  \/ f.mtime < cutoffTime
  \/ (cutoffSize > 0 /\ f.size > cutoffSize /\ f.mtime < sizeCutoffTime)

\* trimSubdir: remove the entries of one shard that the test selects and
\* return the size of those it keeps.
trimSubdir(d, s, cutoffTime, cutoffSize, sizeCutoffTime) ==
  LET rm == {nm \in Listing(d, s) :
               /\ IsEntry(nm)
               /\ Evict(d[nm], cutoffTime, cutoffSize, sizeCutoffTime)}
      d2 == [nm \in Names |-> IF nm \in rm THEN NoFile ELSE d[nm]]
  IN [d |-> d2,
      size |-> SumSizes(d2, {nm \in Listing(d2, s) : IsEntry(nm)})]

\* The first loop of trim over the shards.
RECURSIVE trimShards(_, _, _, _)
trimShards(d, s, size, now) ==
  IF s >= NumShards THEN [d |-> d, size |-> size]
  ELSE LET r == trimSubdir(d, s, now - cfg.trimLimit, cfg.trimSize,
                           now - cfg.trimInterval)
       IN trimShards(r.d, s + 1, size + r.size, now)

\* The names of shard s in the order os.ReadDir lists them (by file name:
\* the hex identifier, then the suffix).
RECURSIVE NamesFrom(_, _)
NamesFrom(id, s) ==
  IF id > 7 THEN <<>>
  ELSE (IF ShardOf(id) = s /\ <<"x", id>> \in ForeignNames
        THEN << <<"x", id>> >> ELSE <<>>)
       \o
       (IF ShardOf(id) = s /\ \E k \in Keys : SumID(k) = id
        THEN << IndexName(CHOOSE k \in Keys : SumID(k) = id) >> ELSE <<>>)
       \o (IF ShardOf(id) = s /\ \E v \in Vals : SumID(v) = id
           THEN << DataName(CHOOSE v \in Vals : SumID(v) = id) >> ELSE <<>>)
       \o NamesFrom(id + 1, s)
ReadDir(s) == NamesFrom(0, s)

\* The inner loop of the maxSize pass over one shard's listing.
RECURSIVE truncSubdir(_, _, _, _)
truncSubdir(d, dis, i, size) ==
  IF i > Len(dis) THEN [d |-> d, size |-> size]
  ELSE IF ~d[dis[i]].exists THEN truncSubdir(d, dis, i + 1, size)
  ELSE LET sz == size - d[dis[i]].size IN
       IF sz <= cfg.maxSize \div 2 THEN [d |-> d, size |-> sz]
       ELSE IF ~IsEntry(dis[i]) THEN truncSubdir(d, dis, i + 1, sz)
       ELSE truncSubdir([d EXCEPT ![dis[i]] = NoFile], dis, i + 1, sz)

\* The outer loop of the maxSize pass.
RECURSIVE truncShards(_, _, _)
truncShards(d, s, size) ==
  IF s >= NumShards THEN d
  ELSE LET r == truncSubdir(d, ReadDir(s), 1, size)
       IN truncShards(r.d, s + 1, r.size)

\* What lockedfile.Write leaves in trim.txt: the new text, or, when the
\* write fails after the file was opened and truncated, an empty file.
WriteResults == {"ok", "ewrite"}
lockedWrite(old, now, wres) ==
  IF wres = "ok" THEN [exists |-> TRUE, data |-> FormatInt(now)]
  ELSE [exists |-> TRUE, data |-> <<>>]

\* The throttle of C.trim: the in-memory lastTrim first, then trim.txt
\* (read, under its lock, only when trimInterval > 0).
readTrim == IF cfg.trimInterval > 0 /\ trimTxt.exists
            THEN ParseInt(TrimSpace(trimTxt.data))
            ELSE [ok |-> FALSE, t |-> 0]
\* The throttle without the in-memory check, without the check of trim.txt.
skipInMemoryNever(h, now) == FALSE
skipOnDiskNever(now) == FALSE

skipInMemory(h, now) ==
  ~IsZero(lastTrim[h]) /\ now - lastTrim[h] < cfg.trimInterval
skipOnDisk(now) == readTrim.ok /\ now - readTrim.t < cfg.trimInterval
Throttled(h, now) == skipInMemory(h, now) \/ skipOnDisk(now)

\* C.trim of handle h at time now over the directory d; wres is the
\* outcome of the final write.  Beside the new directory, trim.txt and
\* C.lastTrim, the result tells what the call did: whether it read
\* trim.txt, scanned, ran the maxSize pass, which files it removed and
\* the error it returned.
trim(d, h, now, wres) ==
  LET same == [dir |-> d, trimTxt |-> trimTxt, lastTrim |-> lastTrim[h],
               rd |-> FALSE, scanned |-> FALSE, truncated |-> FALSE,
               removed |-> {}, err |-> FALSE]
      rd == cfg.trimInterval > 0
  IN IF skipInMemory(h, now) THEN same
     ELSE IF skipOnDisk(now)
     THEN [same EXCEPT !.lastTrim = readTrim.t, !.rd = rd]
     ELSE LET p1 == trimShards(d, 0, 0, now)
              tr == cfg.maxSize > 0 /\ p1.size > cfg.maxSize
              d2 == IF tr THEN truncShards(p1.d, 0, p1.size) ELSE p1.d
          IN [dir |-> d2, trimTxt |-> lockedWrite(trimTxt, now, wres),
              lastTrim |-> now, rd |-> rd, scanned |-> TRUE,
              truncated |-> tr,
              removed |-> {nm \in Names : d[nm].exists /\ ~d2[nm].exists},
              err |-> (wres # "ok")]

\* The outcomes the final write can have in a call of handle h now: it is
\* only reached when the trim scans.
Outcomes(h) ==
  IF calls >= MaxCalls THEN {}
  ELSE IF Throttled(h, clock) THEN {"ok"} ELSE WriteResults

\* ------------------------------------------------------------ the facade
\* The record of a call: its arguments, the time, what trim did in it and
\* what it returned; prev keeps the call before it.
Brief(c) == [op |-> c.op, h |-> c.h, now |-> c.now, scanned |-> c.scanned,
             terr |-> c.terr]
NoCall ==
  [op |-> "Open", h |-> 0, k |-> 0, v |-> 0, now |-> 0, ok |-> TRUE,
   rd |-> FALSE, scanned |-> FALSE, truncated |-> FALSE, terr |-> FALSE,
   removed |-> {}, disk |-> 0, file |-> 0, out |-> 0, size |-> 0, old |-> 0,
   path |-> <<>>, did |-> "none", code |-> 0, ctype |-> "", clen |-> 0,
   body |-> 0, fail |-> "none",
   flags |-> [server |-> FALSE, out |-> FALSE], hit |-> FALSE,
   via |-> "none", ran |-> FALSE, contact |-> FALSE, posted |-> FALSE,
   putl |-> FALSE, deliv |-> <<>>,
   env |-> [open |-> FALSE, get |-> FALSE, post |-> FALSE],
   args |-> <<>>, stdin |-> <<>>, desc |-> <<>>]
Call(op, h, k, v) ==
  [NoCall EXCEPT !.op = op, !.h = h, !.k = k, !.v = v, !.now = clock]
Traced(c, t) ==
  [c EXCEPT !.rd = t.rd, !.scanned = t.scanned, !.truncated = t.truncated,
            !.terr = t.err, !.removed = t.removed, !.disk = DiskSize(t.dir)]
\* The value the index of k leads to in d, 0 when k has no index.
Indexed(d, k) ==
  IF d[IndexName(k)].exists THEN ValOfID(d[IndexName(k)].out) ELSE 0

\* A directory is either fresh or was used before: an earlier process
\* made one call, Put(1, 2), at time 0 and exited.
Fresh == [dir |-> [nm \in Names |-> NoFile],
          trimTxt |-> [exists |-> FALSE, data |-> <<>>], puts |-> {}]
Used == [dir |-> cPut(Fresh.dir, 1, 2, 0),
         trimTxt |-> [exists |-> TRUE, data |-> FormatInt(0)],
         puts |-> {<<1, 2>>}]

\* A server that holds no entry: the value stored for each key, 0 for none.
NoEntries == [k \in Keys |-> 0]

\* New on an empty root: the map of the ristretto cache (the data a key
\* leads to, 0 for none), its buffer of Sets not applied yet, the content
\* files under root (the data each holds), and the data of the last Put
\* of each key.
New == [store |-> [k \in Keys |-> 0], setBuf |-> <<>>, files |-> {},
        latest |-> [k \in Keys |-> 0]]

\* The goroutines that call the handles, and a goroutine between calls.
Procs == {1, 2}
Idle ==
  [at |-> "idle", op |-> "none", k |-> 0, v |-> 0, now |-> 0,
   seen |-> Fresh.trimTxt,
   ents |-> <<>>, shard |-> 0, size |-> 0, fdok |-> FALSE,
   out |-> 0, osize |-> 0, ok |-> FALSE, file |-> 0, fsize |-> 0,
   miss |-> FALSE, code |-> 0, body |-> 0]

Init ==
  /\ clock = 0
  /\ cfg \in Configs
  /\ \E st \in {Fresh, Used} :
       dir = st.dir /\ trimTxt = st.trimTxt /\ puts = st.puts
  /\ lastTrim = [h \in Handles |-> ZeroTime]
  /\ calls = 0
  /\ last = [cur |-> NoCall, prev |-> Brief(NoCall)]
  /\ pc = [p \in Procs |-> Idle]
  /\ hof = [p \in Procs |-> p]
  /\ mu = [h \in Handles |-> 0]
  /\ lock = 0
  /\ srv = NoEntries
  /\ fc = New

\* Time passes between calls.
Tick ==
  /\ clock < MaxClock
  /\ clock' = clock + 1
  /\ UNCHANGED <<cfg, dir, trimTxt, lastTrim, calls, last>>
  /\ UNCHANGED procVars

\* A call is counted and recorded.
Record(c) ==
  /\ calls' = calls + 1
  /\ last' = [cur |-> c, prev |-> Brief(last.cur)]
  /\ UNCHANGED procVars

\* A call is counted and recorded by a step that sets srv itself.
Record2(c) ==
  /\ calls' = calls + 1
  /\ last' = [cur |-> c, prev |-> Brief(last.cur)]
  /\ UNCHANGED <<pc, hof, mu, lock, puts, fc>>

\* Cache.Put with the trim after the store instead of before it.
PutTrimLast(h, k, v, wres) ==
  /\ calls < MaxCalls
  /\ \E t \in {trim(cPut(dir, k, v, clock), h, clock, wres)} :
       /\ dir' = t.dir
       /\ trimTxt' = t.trimTxt
       /\ lastTrim' = [lastTrim EXCEPT ![h] = t.lastTrim]
       /\ Record([Traced(Call("Put", h, k, v), t) EXCEPT
                    !.out = SumID(v), !.size = Size(v),
                    !.old = Indexed(dir, k)])
  /\ UNCHANGED <<clock, cfg>>

\* Cache.Put: trim, then store.  The error of trim is dropped.
Put(h, k, v, wres) ==
  /\ calls < MaxCalls
  /\ \E t \in {trim(dir, h, clock, wres)} :
       /\ dir' = cPut(t.dir, k, v, clock)
       /\ trimTxt' = t.trimTxt
       /\ lastTrim' = [lastTrim EXCEPT ![h] = t.lastTrim]
       /\ Record([Traced(Call("Put", h, k, v), t) EXCEPT
                    !.out = SumID(v), !.size = Size(v),
                    !.old = Indexed(dir, k)])
  /\ UNCHANGED <<clock, cfg>>

\* A read on any handle: the store's answer and its mtime refreshes;
\* no field of the handle is read or written.
Read(op, k, r) ==
  /\ calls < MaxCalls
  /\ dir' = r.d
  /\ Record([Call(op, 0, k, 0) EXCEPT
               !.ok = r.ok, !.file = r.file, !.out = r.out, !.size = r.size])
  /\ UNCHANGED <<clock, cfg, trimTxt, lastTrim>>

\* Cache.Get with a trim before the lookup, as Put has.
GetTrims(k) ==
  /\ calls < MaxCalls
  /\ \E t \in {trim(dir, 1, clock, "ok")} :
     \E g \in {cGet(t.dir, k, clock)} :
       /\ dir' = g.d
       /\ trimTxt' = t.trimTxt
       /\ lastTrim' = [lastTrim EXCEPT ![1] = t.lastTrim]
       /\ Record([Traced(Call("Get", 0, k, 0), t) EXCEPT
                    !.ok = g.ok, !.out = g.out, !.size = g.size])
  /\ UNCHANGED <<clock, cfg>>

\* Cache.Get
Get(k) ==
  LET g == cGet(dir, k, clock) IN
  Read("Get", k, [ok |-> g.ok, file |-> 0, out |-> g.out,
                  size |-> g.size, d |-> g.d])

\* Cache.GetBytes
GetBytes(k) == Read("GetBytes", k, cGetBytes(dir, k, clock))

\* Cache.GetFile
GetFile(k) == Read("GetFile", k, cGetFile(dir, k, clock))

\* Cache.Trim
Trim(h, wres) ==
  /\ calls < MaxCalls
  /\ \E t \in {trim(dir, h, clock, wres)} :
       /\ dir' = t.dir
       /\ trimTxt' = t.trimTxt
       /\ lastTrim' = [lastTrim EXCEPT ![h] = t.lastTrim]
       /\ Record([Traced(Call("Trim", h, 0, 0), t) EXCEPT !.ok = ~t.err])
  /\ UNCHANGED <<clock, cfg>>

Next ==
  \/ Tick
  \/ \E h \in Handles, k \in Keys, v \in Vals :
       \E wres \in Outcomes(h) : Put(h, k, v, wres)
  \/ \E k \in Keys : Get(k)
  \/ \E k \in Keys : GetBytes(k)
  \/ \E k \in Keys : GetFile(k)
  \/ \E h \in Handles : \E wres \in Outcomes(h) : Trim(h, wres)

Spec == Init /\ [][Next]_vars

\* ------------------------------------------------------------ trim.txt
\* The same calls on a directory whose trim.txt was left by others: empty,
\* not a number, a past time followed by white space, or the time of a
\* process whose clock is ahead.
TxtSeeds ==
  { <<>>, <<1, 11>>, <<0, 32>>, FormatInt(MaxClock \div 2) }

InitTxt ==
  /\ clock = 0
  /\ cfg \in {c \in Configs : c.trimInterval > 0}
  /\ dir = Used.dir
  /\ \E data \in TxtSeeds : trimTxt = [exists |-> TRUE, data |-> data]
  /\ puts = Used.puts
  /\ lastTrim = [h \in Handles |-> ZeroTime]
  /\ calls = 0
  /\ last = [cur |-> NoCall, prev |-> Brief(NoCall)]
  /\ pc = [p \in Procs |-> Idle]
  /\ hof = [p \in Procs |-> p]
  /\ mu = [h \in Handles |-> 0]
  /\ lock = 0
  /\ srv = NoEntries
  /\ fc = New

SpecTxt == InitTxt /\ [][Next]_vars

\* ------------------------------------------------------------ other files
\* The cache directory also holds files that are not the cache's, old and
\* large enough for the tests of the trimmer.
ForeignFile == [exists |-> TRUE, size |-> 800, mtime |-> 0, wtime |-> 0]
WithForeign(d) ==
  [nm \in Names |-> IF nm \in ForeignNames THEN ForeignFile ELSE d[nm]]

InitForeign ==
  /\ clock = 0
  /\ cfg \in Configs
  /\ \E st \in {Fresh, Used} :
       dir = WithForeign(st.dir) /\ trimTxt = st.trimTxt /\ puts = st.puts
  /\ lastTrim = [h \in Handles |-> ZeroTime]
  /\ calls = 0
  /\ last = [cur |-> NoCall, prev |-> Brief(NoCall)]
  /\ pc = [p \in Procs |-> Idle]
  /\ hof = [p \in Procs |-> p]
  /\ mu = [h \in Handles |-> 0]
  /\ lock = 0
  /\ srv = NoEntries
  /\ fc = New

SpecForeign == InitForeign /\ [][Next]_vars

\* ------------------------------------------------------------ goroutines
\* The same calls, made by goroutines that run at the same time, step by
\* step: each step is one access to the handle or to the file system.  Two
\* goroutines call either one handle (one process) or one handle each (two
\* processes on one directory).  The directory was last used, if at all,
\* two ticks before the end of the time modelled, which is when the calls
\* begin.  The write of trim.txt succeeds here.
HandleMaps == {[p \in Procs |-> 1], [p \in Procs |-> p]}

InitProc ==
  /\ clock = MaxClock - 2
  /\ cfg \in Configs
  /\ \E st \in {Fresh, Used} :
       dir = st.dir /\ trimTxt = st.trimTxt /\ puts = st.puts
  /\ lastTrim = [h \in Handles |-> ZeroTime]
  /\ calls = 0
  /\ last = [cur |-> NoCall, prev |-> Brief(NoCall)]
  /\ pc = [p \in Procs |-> Idle]
  /\ hof \in HandleMaps
  /\ mu = [h \in Handles |-> 0]
  /\ lock = 0
  /\ srv = NoEntries
  /\ fc = New

\* Goroutine p moves on to r; a file that p removes is no longer the file
\* that the goroutines writing it hold open.
Goto(p, r) == pc' = [pc EXCEPT ![p] = r]
Writing(q, nm) == pc[q].at \in {"wbody", "wlast"} /\ DataName(pc[q].v) = nm
\* A request handler holds the file nm open for reading: after the removal
\* its descriptor is that of the removed file, with the size it had.
Serving(q, nm) == pc[q].at = "hsend" /\ DataName(pc[q].file) = nm
GotoRemoving(p, r, nm) ==
  /\ pc' = [q \in Procs |->
              IF q = p THEN r
              ELSE IF Writing(q, nm) THEN [pc[q] EXCEPT !.fdok = FALSE]
              ELSE IF Serving(q, nm) /\ pc[q].fdok
              THEN [pc[q] EXCEPT !.fdok = FALSE, !.fsize = dir[nm].size]
              ELSE pc[q]]
  /\ dir' = [dir EXCEPT ![nm] = NoFile]

\* A goroutine calls Put, GetFile or Trim and waits for C.mu.
Enter(p, op, k, v) ==
  /\ calls < MaxCalls
  /\ pc[p].at = "idle"
  /\ calls' = calls + 1
  /\ Goto(p, [Idle EXCEPT !.at = "lock", !.op = op, !.k = k, !.v = v])
  /\ puts' = IF op = "Put" THEN puts \cup {<<k, v>>} ELSE puts
  /\ UNCHANGED <<fc, srv, clock, cfg, dir, trimTxt, lastTrim, last, hof, mu, lock>>
CallPut(p, k, v) == Enter(p, "Put", k, v)
CallGetFile(p, k) == Enter(p, "GetFile", k, 0)
CallTrim(p) == Enter(p, "Trim", 0, 0)
CallGet(p, k) == Enter(p, "Get", k, 0)
CallGetBytes(p, k) == Enter(p, "GetBytes", k, 0)

\* A lock that never makes its caller wait.
muFreeAlways(p) == TRUE
\* sync.Mutex: Lock returns only when no goroutine holds C.mu.
muFree(p) == mu[hof[p]] = 0

\* C.mu.Lock()
muLock(p) ==
  /\ pc[p].at = "lock"
  /\ muFree(p)
  /\ mu' = [mu EXCEPT ![hof[p]] = p]
  /\ Goto(p, [pc[p] EXCEPT !.at = IF pc[p].op \in {"Put", "Trim"}
                                  THEN "trim" ELSE "get"])
  /\ UNCHANGED <<fc, srv, clock, cfg, dir, trimTxt, lastTrim, calls, last, hof, lock,
                 puts>>

\* Where a call goes on when its trim has returned.
AfterTrim(r) ==
  [r EXCEPT !.at = IF r.op = "Put" THEN "copy" ELSE "done",
            !.ok = TRUE, !.now = 0, !.seen = Idle.seen,
            !.ents = <<>>, !.shard = 0, !.size = 0]

\* C.trim: read the clock and test the in-memory lastTrim.
trimBegin(p) ==
  /\ pc[p].at = "trim"
  /\ Goto(p, IF skipInMemory(hof[p], clock) THEN AfterTrim(pc[p])
             ELSE [pc[p] EXCEPT !.now = clock,
                     !.at = IF cfg.trimInterval > 0 THEN "tread" ELSE "list"])
  /\ UNCHANGED <<fc, srv, clock, cfg, dir, trimTxt, lastTrim, calls, last, hof, mu,
                 lock, puts>>

\* lockedfile.Read waits while a writer holds the lock of trim.txt.
readUnlocked == TRUE
readLocked == lock = 0

\* C.trim: read trim.txt under its lock and test the time in it.
trimRead(p) ==
  /\ pc[p].at = "tread"
  /\ readLocked
  /\ lastTrim' = IF readTrim.ok
                 THEN [lastTrim EXCEPT ![hof[p]] = readTrim.t] ELSE lastTrim
  /\ Goto(p, IF skipOnDisk(pc[p].now) THEN AfterTrim(pc[p])
             ELSE [pc[p] EXCEPT !.at = "list", !.seen = trimTxt])
  /\ UNCHANGED <<fc, srv, clock, cfg, dir, trimTxt, calls, last, hof, mu, lock, puts>>

\* The entries that exist in shard s, in the order of the listing.
Entries(s) == SelectSeq(ReadDir(s), LAMBDA nm : dir[nm].exists)

\* The scan goes on with the next entry, the next shard or, after the last
\* shard, with the maxSize pass or the write of trim.txt.
NextEntry(r, ents) ==
  IF ents # <<>> THEN [r EXCEPT !.ents = ents]
  ELSE IF r.shard + 1 < NumShards
  THEN [r EXCEPT !.ents = <<>>, !.shard = r.shard + 1,
                 !.at = IF r.at = "entry" THEN "list"
                        ELSE IF r.at = "uentry" THEN "ulist" ELSE r.at]
  ELSE IF r.at \in {"list", "entry"} /\ cfg.maxSize > 0
          /\ r.size > cfg.maxSize
  THEN [r EXCEPT !.ents = <<>>, !.shard = 0, !.at = "ulist"]
  ELSE [r EXCEPT !.ents = <<>>, !.shard = 0, !.at = "wopen"]

\* A scan that gives up at the first entry it cannot stat.
statFailedAborts(r, rest) == AfterTrim([r EXCEPT !.miss = TRUE])
\* The stat of an entry failed (the file is gone): the failure is noted
\* (logged) and the loop continues with the next entry.
statFailed(r, rest) == [NextEntry(r, rest) EXCEPT !.miss = TRUE]

\* trimSubdir: open the shard and list it.
trimList(p) ==
  /\ pc[p].at = "list"
  /\ \E ents \in {Entries(pc[p].shard)} :
       Goto(p, IF ents = <<>> THEN NextEntry(pc[p], ents)
               ELSE [pc[p] EXCEPT !.at = "entry", !.ents = ents])
  /\ UNCHANGED <<fc, srv, clock, cfg, dir, trimTxt, lastTrim, calls, last, hof, mu,
                 lock, puts>>

\* trimSubdir: stat one entry of the listing; remove it or count its size.
trimEntry(p) ==
  /\ pc[p].at = "entry"
  /\ LET r    == pc[p]
         nm   == Head(r.ents)
         f    == dir[nm]
         rest == Tail(r.ents)
     IN IF ~IsEntry(nm)
        THEN Goto(p, NextEntry(r, rest)) /\ dir' = dir
        ELSE IF ~f.exists
        THEN Goto(p, statFailed(r, rest)) /\ dir' = dir
        ELSE IF Evict(f, r.now - cfg.trimLimit, cfg.trimSize,
                      r.now - cfg.trimInterval)
        THEN GotoRemoving(p, NextEntry(r, rest), nm)
        ELSE /\ Goto(p, NextEntry([r EXCEPT !.size = r.size + f.size], rest))
             /\ dir' = dir
  /\ UNCHANGED <<fc, srv, clock, cfg, trimTxt, lastTrim, calls, last, hof, mu, lock,
                 puts>>

\* The maxSize pass: list one shard.
truncList(p) ==
  /\ pc[p].at = "ulist"
  /\ \E ents \in {Entries(pc[p].shard)} :
       Goto(p, IF ents = <<>> THEN NextEntry(pc[p], ents)
               ELSE [pc[p] EXCEPT !.at = "uentry", !.ents = ents])
  /\ UNCHANGED <<fc, srv, clock, cfg, dir, trimTxt, lastTrim, calls, last, hof, mu,
                 lock, puts>>

\* The maxSize pass: one entry of the listing.  The size is taken off the
\* total first, and the loop over the shard ends before the removal when
\* the total has come down to maxSize/2.
truncEntry(p) ==
  /\ pc[p].at = "uentry"
  /\ LET r    == pc[p]
         nm   == Head(r.ents)
         f    == dir[nm]
         rest == Tail(r.ents)
         sz   == r.size - f.size
     IN IF ~f.exists
        THEN Goto(p, statFailed(r, rest)) /\ dir' = dir
        ELSE IF sz <= cfg.maxSize \div 2
        THEN Goto(p, NextEntry([r EXCEPT !.size = sz], <<>>)) /\ dir' = dir
        ELSE IF ~IsEntry(nm)
        THEN Goto(p, NextEntry([r EXCEPT !.size = sz], rest)) /\ dir' = dir
        ELSE GotoRemoving(p, NextEntry([r EXCEPT !.size = sz], rest), nm)
  /\ UNCHANGED <<fc, srv, clock, cfg, trimTxt, lastTrim, calls, last, hof, mu, lock,
                 puts>>

\* C.lastTrim = now; lockedfile.Write opens trim.txt, creating it.
trimOpen(p) ==
  /\ pc[p].at = "wopen"
  /\ lastTrim' = [lastTrim EXCEPT ![hof[p]] = pc[p].now]
  /\ trimTxt' = IF trimTxt.exists THEN trimTxt
                ELSE [exists |-> TRUE, data |-> <<>>]
  /\ Goto(p, [pc[p] EXCEPT !.at = "wlock"])
  /\ UNCHANGED <<fc, srv, clock, cfg, dir, calls, last, hof, mu, lock, puts>>

\* lockedfile.Write takes the lock of trim.txt and truncates the file.
trimLock(p) ==
  /\ pc[p].at = "wlock"
  /\ lock = 0
  /\ lock' = p
  /\ trimTxt' = [exists |-> TRUE, data |-> <<>>]
  /\ Goto(p, [pc[p] EXCEPT !.at = "wwrite"])
  /\ UNCHANGED <<fc, srv, clock, cfg, dir, lastTrim, calls, last, hof, mu, puts>>

\* lockedfile.Write writes the time of the trim and releases the lock.
trimWrite(p) ==
  /\ pc[p].at = "wwrite"
  /\ trimTxt' = lockedWrite(trimTxt, pc[p].now, "ok")
  /\ lock' = 0
  /\ Goto(p, AfterTrim(pc[p]))
  /\ UNCHANGED <<fc, srv, clock, cfg, dir, lastTrim, calls, last, hof, mu, puts>>

\* copyFile: stat the content file; open it, creating it, unless it is
\* there with the right size.
putStat(p) ==
  /\ pc[p].at = "copy"
  /\ LET v == pc[p].v
         f == dir[DataName(v)]
     IN IF f.exists /\ f.size = Size(v)
        THEN Goto(p, [pc[p] EXCEPT !.at = "index"]) /\ dir' = dir
        ELSE /\ dir' = IF f.exists THEN dir
                       ELSE [dir EXCEPT ![DataName(v)] =
                               [exists |-> TRUE, size |-> 0,
                                mtime |-> clock, wtime |-> clock]]
             /\ Goto(p, IF Size(v) = 0 THEN [pc[p] EXCEPT !.at = "index"]
                        ELSE [pc[p] EXCEPT !.at = "wbody", !.fdok = TRUE])
  /\ UNCHANGED <<fc, srv, clock, cfg, trimTxt, lastTrim, calls, last, hof, mu, lock,
                 puts>>

\* A write of the first n bytes of the value into the open content file.
WriteTo(f, n) ==
  [f EXCEPT !.size = IF n > f.size THEN n ELSE f.size,
            !.mtime = clock, !.wtime = clock]

\* copyFile: write all but the last byte.
putBody(p) ==
  /\ pc[p].at = "wbody"
  /\ LET nm == DataName(pc[p].v) IN
     dir' = IF pc[p].fdok
            THEN [dir EXCEPT ![nm] = WriteTo(dir[nm], Size(pc[p].v) - 1)]
            ELSE dir
  /\ Goto(p, [pc[p] EXCEPT !.at = "wlast"])
  /\ UNCHANGED <<fc, srv, clock, cfg, trimTxt, lastTrim, calls, last, hof, mu, lock,
                 puts>>

\* copyFile: write the last byte, close the file and set the times of
\* the file of that name.
putLast(p) ==
  /\ pc[p].at = "wlast"
  /\ LET nm == DataName(pc[p].v) IN
     dir' = IF pc[p].fdok
            THEN [dir EXCEPT ![nm] = WriteTo(dir[nm], Size(pc[p].v))]
            ELSE IF dir[nm].exists THEN [dir EXCEPT ![nm].mtime = clock]
            ELSE dir
  /\ Goto(p, [pc[p] EXCEPT !.at = "index", !.fdok = FALSE])
  /\ UNCHANGED <<fc, srv, clock, cfg, trimTxt, lastTrim, calls, last, hof, mu, lock,
                 puts>>

\* putIndexEntry, and Put returns.
putIndex(p) ==
  /\ pc[p].at = "index"
  /\ dir' = putIndexEntry(dir, pc[p].k, pc[p].v, clock)
  /\ Goto(p, [pc[p] EXCEPT !.at = "done", !.ok = TRUE,
                !.out = SumID(pc[p].v), !.osize = Size(pc[p].v)])
  /\ UNCHANGED <<fc, srv, clock, cfg, trimTxt, lastTrim, calls, last, hof, mu, lock,
                 puts>>

\* c.Get reads the index file: all of Get, the first step of GetFile and
\* of GetBytes.
getIndex(p) ==
  /\ pc[p].at = "get"
  /\ \E g \in {cGet(dir, pc[p].k, clock)} :
       /\ dir' = g.d
       /\ Goto(p, IF g.ok
                  THEN [pc[p] EXCEPT !.out = g.out, !.osize = g.size,
                          !.ok = (pc[p].op = "Get"),
                          !.at = IF pc[p].op = "Get" THEN "done"
                                 ELSE IF pc[p].op = "GetFile" THEN "gstat"
                                 ELSE "gread"]
                  ELSE [pc[p] EXCEPT !.at = "done", !.ok = FALSE])
  /\ UNCHANGED <<fc, srv, clock, cfg, trimTxt, lastTrim, calls, last, hof, mu, lock,
                 puts>>

\* c.GetFile: stat the content file, compare its size, and return.
getStat(p) ==
  /\ pc[p].at = "gstat"
  /\ LET v  == ValOfID(pc[p].out)
         d2 == used(dir, DataName(v), clock)
         f  == d2[DataName(v)]
     IN /\ dir' = d2
        /\ Goto(p, IF complete(f, pc[p].osize)
                   THEN [pc[p] EXCEPT !.at = "done", !.ok = TRUE,
                                      !.file = v, !.fsize = f.size]
                   ELSE [pc[p] EXCEPT !.at = "done", !.ok = FALSE])
  /\ UNCHANGED <<fc, srv, clock, cfg, trimTxt, lastTrim, calls, last, hof, mu, lock,
                 puts>>

\* c.GetBytes: read the content file, compare its hash, and return.
getBytes(p) ==
  /\ pc[p].at = "gread"
  /\ LET v  == ValOfID(pc[p].out)
         d2 == used(dir, DataName(v), clock)
         f  == d2[DataName(v)]
     IN /\ dir' = d2
        /\ Goto(p, IF f.exists /\ f.size = Size(v)
                   THEN [pc[p] EXCEPT !.at = "done", !.ok = TRUE,
                                      !.file = v, !.fsize = f.size]
                   ELSE [pc[p] EXCEPT !.at = "done", !.ok = FALSE])
  /\ UNCHANGED <<fc, srv, clock, cfg, trimTxt, lastTrim, calls, last, hof, mu, lock,
                 puts>>

\* A return that leaves C.mu locked.
ReturnLocked(p) ==
  /\ pc[p].at = "done"
  /\ Goto(p, Idle)
  /\ UNCHANGED <<fc, srv, clock, cfg, dir, trimTxt, lastTrim, calls, last, hof, mu,
                 lock, puts>>

\* The call returns: C.mu.Unlock().
Return(p) ==
  /\ pc[p].at = "done"
  /\ mu' = [mu EXCEPT ![hof[p]] = 0]
  /\ Goto(p, Idle)
  /\ UNCHANGED <<fc, srv, clock, cfg, dir, trimTxt, lastTrim, calls, last, hof, lock,
                 puts>>

NextProc ==
  \/ Tick
  \/ \E p \in Procs, k \in Keys, v \in Vals : CallPut(p, k, v)
  \/ \E p \in Procs, k \in Keys : CallGetFile(p, k)
  \/ \E p \in Procs : CallTrim(p)
  \/ \E p \in Procs, k \in Keys : CallGet(p, k)
  \/ \E p \in Procs, k \in Keys : CallGetBytes(p, k)
  \/ \E p \in Procs : muLock(p)
  \/ \E p \in Procs : trimBegin(p)
  \/ \E p \in Procs : trimRead(p)
  \/ \E p \in Procs : trimList(p)
  \/ \E p \in Procs : trimEntry(p)
  \/ \E p \in Procs : truncList(p)
  \/ \E p \in Procs : truncEntry(p)
  \/ \E p \in Procs : trimOpen(p)
  \/ \E p \in Procs : trimLock(p)
  \/ \E p \in Procs : trimWrite(p)
  \/ \E p \in Procs : putStat(p)
  \/ \E p \in Procs : putBody(p)
  \/ \E p \in Procs : putLast(p)
  \/ \E p \in Procs : putIndex(p)
  \/ \E p \in Procs : getIndex(p)
  \/ \E p \in Procs : getStat(p)
  \/ \E p \in Procs : getBytes(p)
  \/ \E p \in Procs : Return(p)

SpecProc == InitProc /\ [][NextProc]_vars

\* ------------------------------------------------------------ redundant scans
\* The scan of C.trim as a function of the directory: the age/size pass
\* over the shards, then the maxSize pass when the retained size exceeds
\* maxSize.
ScanOf(d, now) ==
  LET p1 == trimShards(d, 0, 0, now)
  IN IF cfg.maxSize > 0 /\ p1.size > cfg.maxSize
     THEN truncShards(p1.d, 0, p1.size) ELSE p1.d

\* A directory in which earlier processes made two calls, Put(1, 2) and
\* Put(2, 1), at time 0.
Full == [dir |-> cPut(cPut(Fresh.dir, 1, 2, 0), 2, 1, 0),
         trimTxt |-> Used.trimTxt,
         puts |-> {<<1, 2>>, <<2, 1>>}]
ScanSeeds == <<Fresh, Used, Full>>

\* Two goroutines, of one process or of two, that call nothing but Trim
\* while the clock stands still and nothing writes an entry.
InitScan ==
  /\ clock = MaxClock - 2
  /\ cfg \in Configs
  /\ \E i \in DOMAIN ScanSeeds :
       /\ dir = ScanSeeds[i].dir
       /\ trimTxt = ScanSeeds[i].trimTxt
       /\ puts = ScanSeeds[i].puts
  /\ lastTrim = [h \in Handles |-> ZeroTime]
  /\ calls = 0
  /\ last = [cur |-> NoCall, prev |-> Brief(NoCall)]
  /\ pc = [p \in Procs |-> Idle]
  /\ hof \in HandleMaps
  /\ mu = [h \in Handles |-> 0]
  /\ lock = 0
  /\ srv = NoEntries
  /\ fc = New

NextScan ==
  \/ \E p \in Procs : CallTrim(p)
  \/ \E p \in Procs : muLock(p)
  \/ \E p \in Procs : trimBegin(p)
  \/ \E p \in Procs : trimRead(p)
  \/ \E p \in Procs : trimList(p)
  \/ \E p \in Procs : trimEntry(p)
  \/ \E p \in Procs : truncList(p)
  \/ \E p \in Procs : truncEntry(p)
  \/ \E p \in Procs : trimOpen(p)
  \/ \E p \in Procs : trimLock(p)
  \/ \E p \in Procs : trimWrite(p)
  \/ \E p \in Procs : Return(p)

SpecScan == InitScan /\ [][NextScan]_vars

\* ------------------------------------------------------------ GET beside a trim
\* The GET branch of the handler, step by step, beside the goroutines that
\* call Put (the POST branch, or another process), whose trim removes files: cache.GetFile, under C.mu, then os.Open, then the
\* Stat of the open file with the headers and the copy.  What the handler
\* answered is kept in code and body of its record until it ends.

\* cache.GetFile has returned (C.mu is released): 404 when it named no file.
handlerGot(p) ==
  /\ pc[p].at = "done" /\ pc[p].op = "GetFile"
  /\ mu' = [mu EXCEPT ![hof[p]] = 0]
  /\ Goto(p, IF pc[p].ok THEN [pc[p] EXCEPT !.at = "hopen"]
             ELSE [pc[p] EXCEPT !.at = "sent", !.code = 404])
  /\ UNCHANGED <<fc, srv, clock, cfg, dir, trimTxt, lastTrim, calls, last,
                 hof, lock, puts>>

\* os.Open(fn): 404 when the file does not exist.
handlerOpen(p) ==
  /\ pc[p].at = "hopen"
  /\ LET f == dir[DataName(pc[p].file)] IN
     Goto(p, IF f.exists
             THEN [pc[p] EXCEPT !.at = "hsend", !.fdok = TRUE,
                                !.fsize = f.size]
             ELSE [pc[p] EXCEPT !.at = "sent", !.code = 404])
  /\ UNCHANGED <<fc, srv, clock, cfg, dir, trimTxt, lastTrim, calls, last,
                 hof, mu, lock, puts>>

\* fh.Stat(): 404 for a size of zero; else Content-Length is that size and
\* io.Copy sends the file: the response carries Content-Length bytes.
handlerSend(p) ==
  /\ pc[p].at = "hsend"
  /\ LET size == IF pc[p].fdok THEN dir[DataName(pc[p].file)].size
                 ELSE pc[p].fsize
     IN Goto(p, IF size = 0
                THEN [pc[p] EXCEPT !.at = "sent", !.code = 404,
                                   !.fdok = FALSE]
                ELSE [pc[p] EXCEPT !.at = "sent", !.code = 200,
                                   !.body = size, !.fdok = FALSE])
  /\ UNCHANGED <<fc, srv, clock, cfg, dir, trimTxt, lastTrim, calls, last,
                 hof, mu, lock, puts>>

\* The handler returns.
handlerEnd(p) ==
  /\ pc[p].at = "sent"
  /\ Goto(p, Idle)
  /\ UNCHANGED <<fc, srv, clock, cfg, dir, trimTxt, lastTrim, calls, last,
                 hof, mu, lock, puts>>

\* Put returns; the GetFile of a handler goes on in handlerGot.
ReturnOther(p) == pc[p].op # "GetFile" /\ Return(p)

NextGet ==
  \/ Tick
  \/ \E p \in Procs, k \in Keys, v \in Vals : CallPut(p, k, v)
  \/ \E p \in Procs, k \in Keys : CallGetFile(p, k)
  \/ \E p \in Procs : muLock(p)
  \/ \E p \in Procs : trimBegin(p)
  \/ \E p \in Procs : trimRead(p)
  \/ \E p \in Procs : trimList(p)
  \/ \E p \in Procs : trimEntry(p)
  \/ \E p \in Procs : truncList(p)
  \/ \E p \in Procs : truncEntry(p)
  \/ \E p \in Procs : trimOpen(p)
  \/ \E p \in Procs : trimLock(p)
  \/ \E p \in Procs : trimWrite(p)
  \/ \E p \in Procs : putStat(p)
  \/ \E p \in Procs : putBody(p)
  \/ \E p \in Procs : putLast(p)
  \/ \E p \in Procs : putIndex(p)
  \/ \E p \in Procs : getIndex(p)
  \/ \E p \in Procs : getStat(p)
  \/ \E p \in Procs : handlerGot(p)
  \/ \E p \in Procs : handlerOpen(p)
  \/ \E p \in Procs : handlerSend(p)
  \/ \E p \in Procs : handlerEnd(p)
  \/ \E p \in Procs : ReturnOther(p)

\* The calls begin three ticks before the end of the time modelled, so
\* that a file used at the start can reach the age at which a trim
\* removes it.
InitGet ==
  /\ clock = MaxClock - 3
  /\ cfg \in Configs
  /\ \E st \in {Fresh, Used} :
       dir = st.dir /\ trimTxt = st.trimTxt /\ puts = st.puts
  /\ lastTrim = [h \in Handles |-> ZeroTime]
  /\ calls = 0
  /\ last = [cur |-> NoCall, prev |-> Brief(NoCall)]
  /\ pc = [p \in Procs |-> Idle]
  /\ hof \in HandleMaps
  /\ mu = [h \in Handles |-> 0]
  /\ lock = 0
  /\ srv = NoEntries
  /\ fc = New

SpecGet == InitGet /\ [][NextGet]_vars

\* ------------------------------------------------------------ scheduling
\* A step of goroutine p inside a call it has made.
Step(p) ==
  \/ muLock(p) \/ trimBegin(p) \/ trimRead(p) \/ trimList(p)
  \/ trimEntry(p) \/ truncList(p) \/ truncEntry(p) \/ trimOpen(p)
  \/ trimLock(p) \/ trimWrite(p) \/ putStat(p) \/ putBody(p)
  \/ putLast(p) \/ putIndex(p) \/ getIndex(p) \/ getStat(p)
  \/ getBytes(p) \/ Return(p)

\* The goroutines under a scheduler that lets every goroutine that can
\* take a step take one eventually; a goroutine that waits for C.mu or for
\* the lock of trim.txt can take no step.  Whether and when a goroutine
\* makes a call is left open; the clock stands still meanwhile.
NextLive ==
  \/ \E p \in Procs, k \in Keys, v \in Vals : CallPut(p, k, v)
  \/ \E p \in Procs, k \in Keys : CallGetFile(p, k)
  \/ \E p \in Procs : CallTrim(p)
  \/ \E p \in Procs, k \in Keys : CallGet(p, k)
  \/ \E p \in Procs, k \in Keys : CallGetBytes(p, k)
  \/ \E p \in Procs : Step(p)

SpecLive == InitProc /\ [][NextLive]_vars /\ \A p \in Procs : WF_vars(Step(p))

\* ------------------------------------------------------------ the server
\* The handler of `filecache serve` (cmd/filecache/main.go) over the
\* server's handle, one request at a time.
\*
\* The path is the URL-safe base64 text of the ActionID.  The encoding is
\* scaled down with the identifier: a character carries 2 bits (values
\* 0..3), a byte has 3 bits (0..7), so 3 characters give 2 bytes, and a
\* final group of 2 characters and the padding character gives 1 byte, its
\* spare bit ignored.  An identifier is HashSize bytes long.
HashSize == 1
PadChar == 64
Digits == 0..3

\* base64.URLEncoding.DecodeString
RECURSIVE DecodeString(_)
DecodeString(s) ==
  IF s = <<>> THEN [ok |-> TRUE, b |-> <<>>]
  ELSE IF Len(s) < 3 \/ s[1] \notin Digits \/ s[2] \notin Digits
  THEN [ok |-> FALSE, b |-> <<>>]
  ELSE IF s[3] = PadChar
  THEN IF Len(s) = 3
       THEN [ok |-> TRUE, b |-> << s[1] * 2 + s[2] \div 2 >>]
       ELSE [ok |-> FALSE, b |-> <<>>]
  ELSE IF s[3] \notin Digits THEN [ok |-> FALSE, b |-> <<>>]
  ELSE LET rest == DecodeString(SubSeq(s, 4, Len(s))) IN
       IF rest.ok
       THEN [ok |-> TRUE,
             b |-> << s[1] * 2 + s[2] \div 2, (s[2] % 2) * 4 + s[3] >>
                     \o rest.b]
       ELSE [ok |-> FALSE, b |-> <<>>]

\* The requests of the model: their paths (without the leading slash),
\* methods and bodies (a value; value 1 is the empty body).
Paths ==
  { <<>>, <<0, 0, PadChar>>, <<2, 2, PadChar>>, <<2, 3, PadChar>>,
    <<0, 0, 0>>, <<0, 0>>, <<0, 65, PadChar>> }
Methods == {"GET", "POST", "PUT"}
\* The description whose ActionID is id.
KeyOfID(id) == CHOOSE k \in Keys : SumID(k) = id

\* The response: http.Error answers with the code and a text, no content.
Respond(c, code) == [c EXCEPT !.code = code]

\* The test of the decoded path, accepting a longer byte string too.
WellFormedPrefix(dec) == dec.ok /\ Len(dec.b) >= HashSize
\* The test of the decoded path: it is an identifier.
WellFormed(dec) == dec.ok /\ Len(dec.b) = HashSize

\* The answer to a GET whose GetFile gave no file name, as a server error.
NotFoundAsError(c) == Respond(c, 500)
\* The answer to a GET whose GetFile gave no file name.
NotFound(c) == Respond(c, 404)

\* The answer with the content of file f, without its length.
ServeFileNoLength(c, f, v) ==
  [c EXCEPT !.code = 200, !.ctype = "application/octet-stream", !.body = v]
\* The answer with the content of the opened file f, which holds value v.
ServeFile(c, f, v) ==
  [c EXCEPT !.code = 200, !.ctype = "application/octet-stream",
            !.clen = f.size, !.body = v]

\* The test of the POST body that finds no body empty.
EmptyBodyNever(body) == FALSE
\* The test of the POST body copied to the temporary file: n == 0.
EmptyBody(body) == Size(body) = 0

\* The answer to another method, as a success.
MethodIgnored(c) == Respond(c, 200)
\* The answer to a method that is neither GET nor POST.
MethodNotAllowed(c) == Respond(c, 405)

\* The test of the opened file that finds no file empty.
ZeroSizedNever(f) == FALSE
\* The test of the opened file: fi.Size() == 0.
ZeroSized(f) == f.size = 0

\* The operations of the handler that can fail beside the cache's own
\* misses: opening the content file (it is gone, or another error), its
\* Stat, the copy of its bytes to the response, creating the temporary
\* file, the copy of the request body, and cache.Put.
Faults == {"none", "gone", "open", "stat", "copy", "temp", "body", "put"}
\* The failure after which the handler returns without answering, which
\* net/http turns into a 200 with no content.
FailedUnanswered(c, fault, code) == [c EXCEPT !.fail = fault, !.code = 200]
\* The failure answered with http.Error.
Failed(c, fault, code) == [c EXCEPT !.fail = fault, !.code = code]
\* The copy to the response fails after the header is out: the status and
\* the headers are those of ServeFile, the body stops short.
CopyFailed(c, f, v) == [ServeFile(c, f, v) EXCEPT !.fail = "copy", !.body = 0]

\* The handler.  It decodes the path first, then switches on the method;
\* fault is the operation that fails if the request gets to it.
Serve(method, path, body, wres, fault) ==
  /\ calls < MaxCalls
  /\ LET c  == [Call(method, 1, 0, 0) EXCEPT !.path = path]
         dec == DecodeString(path)
     IN IF ~WellFormed(dec)
        THEN Record(Respond(c, 400))
             /\ UNCHANGED <<dir, trimTxt, lastTrim>>
        ELSE LET k  == KeyOfID(dec.b[1])
                 ck == [c EXCEPT !.k = k]
             IN
        IF method = "GET"
        THEN \E r \in {cGetFile(dir, k, clock)} :
               /\ dir' = r.d
               /\ LET cg == [ck EXCEPT !.did = "GetFile", !.ok = r.ok,
                                       !.file = r.file]
                      f  == r.d[DataName(r.file)]
                  IN IF ~r.ok THEN Record(NotFound(cg))
                     ELSE IF fault = "open" THEN Record(Failed(cg, fault, 500))
                     ELSE IF fault \in {"gone", "stat"}
                     THEN Record(Failed(cg, fault, 404))
                     ELSE IF ZeroSized(f) THEN Record(Respond(cg, 404))
                     ELSE IF fault = "copy"
                     THEN Record(CopyFailed(cg, f, r.file))
                     ELSE Record(ServeFile(cg, f, r.file))
               /\ UNCHANGED <<trimTxt, lastTrim>>
        ELSE IF method = "POST"
        THEN LET cp == [ck EXCEPT !.v = body] IN
             IF fault \in {"temp", "body"}
             THEN Record(Failed(cp, fault, 500))
                  /\ UNCHANGED <<dir, trimTxt, lastTrim>>
             ELSE IF EmptyBody(body)
             THEN Record(Respond(cp, 412))
                  /\ UNCHANGED <<dir, trimTxt, lastTrim>>
             ELSE \E t \in {trim(dir, 1, clock, wres)} :
                    /\ trimTxt' = t.trimTxt
                    /\ lastTrim' = [lastTrim EXCEPT ![1] = t.lastTrim]
                    /\ IF fault = "put"
                       THEN /\ dir' \in {t.dir, copyFile(t.dir, body, clock)}
                            /\ Record(Failed([Traced(cp, t) EXCEPT
                                                !.did = "Put", !.ok = FALSE],
                                             fault, 500))
                       ELSE /\ dir' = cPut(t.dir, k, body, clock)
                            /\ Record([Traced(cp, t) EXCEPT
                                         !.did = "Put", !.out = SumID(body),
                                         !.size = Size(body), !.code = 201])
        ELSE Record(MethodNotAllowed(ck))
             /\ UNCHANGED <<dir, trimTxt, lastTrim>>
  /\ UNCHANGED <<clock, cfg>>

\* A request during which nothing but the cache's own misses goes wrong.
Handle(method, path, body, wres) == Serve(method, path, body, wres, "none")

\* Beside the requests, time passes and another process stores entries in
\* the directory through its own handle.
NextHttp ==
  \/ Tick
  \/ \E method \in Methods, path \in Paths, body \in Vals :
       \E wres \in Outcomes(1) : Handle(method, path, body, wres)
  \/ \E k \in Keys, v \in Vals :
       \E wres \in Outcomes(2) : Put(2, k, v, wres)

SpecHttp == Init /\ [][NextHttp]_vars

\* The same, with requests during which an operation of the handler fails.
Faulty(method, path, body, wres, fault) ==
  fault # "none" /\ Serve(method, path, body, wres, fault)
NextHttpFail ==
  \/ NextHttp
  \/ \E method \in Methods, path \in Paths, body \in Vals :
       \E wres \in Outcomes(1), fault \in Faults :
         Faulty(method, path, body, wres, fault)

SpecHttpFail == Init /\ [][NextHttpFail]_vars

\* ------------------------------------------------------------ the wrapper
\* One invocation of `filecache [flags] command args...` (app.Exec in
\* cmd/filecache/main.go): a process of its own, with a fresh handle on
\* the cache directory.  k is the description built from the arguments
\* and the standard input, flags tell whether --server and -o are given,
\* run is what the command does when executed (its exit and its standard
\* output), env is what the environment answers (whether the content file
\* opens, whether the server can be reached for the GET and for the POST).
FlagSets == [server : BOOLEAN, out : BOOLEAN]
Runs == [ok : BOOLEAN, v : Vals]
Envs == [open : BOOLEAN, get : BOOLEAN, post : BOOLEAN]

\* The server's answer to GET /<id>: 200 with the content of a complete,
\* non-empty entry, 404 otherwise.
ServerHas(s, k) == s[k] # 0 /\ Size(s[k]) > 0

\* The hit test that never finds the file.
OpenedNever(r, env) == FALSE
\* The hit: GetFile gave a file name and os.Open of it succeeded.
Opened(r, env) == r.ok /\ env.open

\* The test of the captured output that finds none empty.
ZeroOutputNever(v) == FALSE
\* The test of the captured output: fi.Size() == 0.
ZeroOutput(v) == Size(v) = 0

\* The test of cmd.Run's error that finds none.
RunFailsNever(run) == FALSE
\* cmd.Run returned an error: the command did not start or exited non-zero.
RunFails(run) == ~run.ok

\* What the consumer (standard output, or the file of -o) receives when
\* the command runs: cmd.Stdout is MultiWriter(fh, destW), and with -o
\* MultiWriter of that and outFh, where destW is outFh already.
Executed(flags, v) == IF flags.out THEN <<v, v>> ELSE <<v>>

\* CloseAtomicallyReplace of the pending file made for cacheFn: the
\* content file named after file now holds the output v.
Replace(d, file, v, now) ==
  [d EXCEPT ![DataName(file)] =
     [exists |-> TRUE, size |-> Size(v), mtime |-> now, wtime |-> now]]

\* The record of an invocation keeps of run and env what the invocation
\* got to see of them.
Exec(k, flags, run, env) ==
  /\ calls < MaxCalls
  /\ LET r  == cGetFile(dir, k, clock)
         c  == [Call("Exec", 1, k, 0) EXCEPT
                  !.flags = flags, !.hit = r.ok, !.file = r.file,
                  !.env.open = r.ok /\ env.open]
         cs == [c EXCEPT !.contact = flags.server,
                         !.env.get = flags.server /\ env.get]
         cf == [cs EXCEPT !.via = "run", !.ran = TRUE, !.v = run.v,
                         !.fail = IF run.ok THEN "none" ELSE "run"]
         cr == [cf EXCEPT !.deliv = Executed(flags, run.v)]
     IN
     IF Opened(r, env)
     THEN \* replay the file
          /\ dir' = r.d /\ srv' = srv /\ trimTxt' = trimTxt
          /\ Record2([c EXCEPT !.via = "local", !.deliv = <<r.file>>])
     ELSE IF flags.server /\ env.get /\ ServerHas(srv, k)
     THEN \* replay the server's answer
          /\ dir' = r.d /\ srv' = srv /\ trimTxt' = trimTxt
          /\ Record2([cs EXCEPT !.via = "server", !.deliv = <<srv[k]>>])
     ELSE IF RunFails(run)
     THEN \* cmd.Run fails: the pending files are cleaned up
          /\ dir' = r.d /\ srv' = srv /\ trimTxt' = trimTxt
          /\ Record2([cf EXCEPT !.ok = FALSE])
     ELSE IF r.ok
     THEN \* cacheFn is set: the output replaces that file
          /\ dir' = Replace(r.d, r.file, run.v, clock)
          /\ srv' = srv /\ trimTxt' = trimTxt
          /\ Record2(cr)
     ELSE IF ~flags.server \/ ZeroOutput(run.v)
     THEN /\ dir' = r.d /\ srv' = srv /\ trimTxt' = trimTxt
          /\ Record2(cr)
     ELSE IF env.post
     THEN \* the server stores the output and answers 201
          /\ dir' = r.d /\ trimTxt' = trimTxt
          /\ srv' = [srv EXCEPT ![k] = run.v]
          /\ Record2([cr EXCEPT !.posted = TRUE, !.env.post = TRUE])
     ELSE \* the POST failed: cache.Put on the local cache
          \E wres \in Outcomes(1) :
          \E t \in {trim(r.d, 1, clock, wres)} :
            /\ dir' = cPut(t.dir, k, run.v, clock)
            /\ trimTxt' = t.trimTxt
            /\ srv' = srv
            /\ Record2([Traced(cr, t) EXCEPT !.posted = TRUE, !.putl = TRUE])
  /\ UNCHANGED <<clock, cfg, lastTrim>>

\* Another process stores an entry in the cache directory.
OtherPut(k, v, wres) == Put(2, k, v, wres)

\* The directory was last used at time 0, MaxClock - 2 ticks ago.
InitCmd ==
  /\ clock = MaxClock - 2
  /\ cfg \in Configs
  /\ \E st \in {Fresh, Used} :
       dir = st.dir /\ trimTxt = st.trimTxt /\ puts = st.puts
  /\ lastTrim = [h \in Handles |-> ZeroTime]
  /\ calls = 0
  /\ last = [cur |-> NoCall, prev |-> Brief(NoCall)]
  /\ pc = [p \in Procs |-> Idle]
  /\ hof = [p \in Procs |-> p]
  /\ mu = [h \in Handles |-> 0]
  /\ lock = 0
  /\ srv \in {NoEntries, [NoEntries EXCEPT ![2] = 2]}
  /\ fc = New

NextCmd ==
  \/ Tick
  \/ \E k \in Keys, flags \in FlagSets, run \in Runs, env \in Envs :
       Exec(k, flags, run, env)
  \/ \E k \in Keys, v \in Vals :
       \E wres \in Outcomes(2) : OtherPut(k, v, wres)

SpecCmd == InitCmd /\ [][NextCmd]_vars

\* ------------------------------------------------------------ the wrapper's key
\* The description app.Exec builds and hashes into the ActionID: the number
\* of arguments in decimal, a NUL byte, each argument followed by a NUL
\* byte and, with the stdin flag, the hash of the standard input.  Bytes
\* are numbers: the digits 0..9 stand for themselves, Nul for the byte 0.
Nul == 10
ArgBytes == {1, 2}
HashBytes == {Nul, 1}
Strings == UNION {[1..n -> ArgBytes] : n \in 0..MaxArgLen}
ArgLists == UNION {[1..n -> Strings] : n \in 0..MaxArgs}
\* The hash of the standard input, or nothing without the flag.
Stdins == {<<>>} \cup [1..HashSize -> HashBytes]

\* The arguments written one after the other with nothing between them.
RECURSIVE Joined(_)
Joined(args) ==
  IF args = <<>> THEN <<>> ELSE Head(args) \o Joined(Tail(args))
\* A description without the count and without the NUL bytes.
DescriptionJoined(args, stdin) == Joined(args) \o stdin

\* cmdBuf.WriteString(arg); cmdBuf.WriteByte(0) for each argument.
RECURSIVE Terminated(_)
Terminated(args) ==
  IF args = <<>> THEN <<>>
  ELSE Head(args) \o <<Nul>> \o Terminated(Tail(args))
\* cmdBuf when NewActionID is called on it.
Description(args, stdin) ==
  FormatInt(Len(args)) \o <<Nul>> \o Terminated(args) \o stdin

\* One invocation builds its description.
Describe(args, stdin) ==
  /\ calls < MaxCalls
  /\ Record([Call("Key", 0, 0, 0) EXCEPT
               !.args = args, !.stdin = stdin,
               !.desc = Description(args, stdin)])
  /\ UNCHANGED <<clock, cfg, dir, trimTxt, lastTrim>>

NextKey == \E args \in ArgLists, stdin \in Stdins : Describe(args, stdin)

SpecKey == Init /\ [][NextKey]_vars

\* ------------------------------------------------------------ FileCache
\* The older API (filecache.go): content files named after the hash of
\* their data, and a ristretto cache from the key to the file's path.
\* ristretto applies the Set of a key it does not hold from a buffer, in
\* order, in a goroutine of its own, and may reject it; the Set of a key
\* it holds replaces the value at once.
MaxFcCalls == 3

\* cache.Set(nodeID, v, n)
Set(f, k, v) ==
  IF f.store[k] # 0 THEN [f EXCEPT !.store[k] = v]
  ELSE [f EXCEPT !.setBuf = Append(@, <<k, v>>)]

\* FileCache.Put: the data goes to a temporary file that is renamed to
\* the name of its hash; then the key is set in the cache.  dropped: the
\* buffer of the cache is full and the Set is lost.
FileCachePut(k, v, dropped) ==
  /\ calls < MaxFcCalls
  /\ LET f1 == [fc EXCEPT !.files = @ \cup {v}, !.latest[k] = v]
     IN fc' = IF dropped /\ fc.store[k] = 0 THEN f1 ELSE Set(f1, k, v)
  /\ calls' = calls + 1
  /\ last' = [cur |-> Call("FileCache.Put", 0, k, v), prev |-> Brief(last.cur)]
  /\ UNCHANGED <<clock, cfg, dir, trimTxt, lastTrim, pc, hof, mu, lock,
                 puts, srv>>

\* FileCache.Get: the path the cache holds for the key, opened.
FileCacheGet(k) ==
  /\ calls < MaxFcCalls
  /\ LET v  == fc.store[k]
         ok == v # 0 /\ v \in fc.files
     IN last' = [cur |-> [Call("FileCache.Get", 0, k, 0) EXCEPT
                            !.ok = ok, !.file = IF ok THEN v ELSE 0],
                 prev |-> Brief(last.cur)]
  /\ calls' = calls + 1
  /\ UNCHANGED <<clock, cfg, dir, trimTxt, lastTrim, pc, hof, mu, lock,
                 puts, srv, fc>>

\* onCacheEvict: the content file of the evicted item is removed.
onCacheEvict(f, v) == [f EXCEPT !.files = @ \ {v}]

\* The cache's goroutine takes the next Set from the buffer: the policy
\* rejects it, or admits it and evicts the victims it picks (none or one
\* in the model); a key the cache holds by now is not admitted again.
processItems(admit, victims) ==
  /\ fc.setBuf # <<>>
  /\ LET k == Head(fc.setBuf)[1]
         v == Head(fc.setBuf)[2]
         f1 == [fc EXCEPT !.setBuf = Tail(@)]
     IN IF ~admit \/ fc.store[k] # 0 THEN fc' = f1
        ELSE /\ victims \subseteq {q \in Keys \ {k} : fc.store[q] # 0}
             /\ fc' = IF victims = {} THEN [f1 EXCEPT !.store[k] = v]
                      ELSE LET q == CHOOSE q \in victims : TRUE IN
                           onCacheEvict([f1 EXCEPT !.store[k] = v,
                                                   !.store[q] = 0],
                                        fc.store[q])
  /\ UNCHANGED <<clock, cfg, dir, trimTxt, lastTrim, calls, last, pc, hof,
                 mu, lock, puts, srv>>

NextFc ==
  \/ \E k \in Keys, v \in Vals, dropped \in BOOLEAN : FileCachePut(k, v, dropped)
  \/ \E k \in Keys : FileCacheGet(k)
  \/ \E admit \in BOOLEAN, victims \in {{}} \cup {{q} : q \in Keys} :
       processItems(admit, victims)

SpecFc == Init /\ [][NextFc]_vars

\* ------------------------------------------------------------ claims
cur == last.cur
IsCall(op) == cur.op = op /\ calls > 0
Reads == {"Get", "GetBytes", "GetFile"}
\* A step of Next that is a call (not the passing of time).
CallStep == calls' = calls + 1

\* C1: on one handle, after Put(k, v) has returned and before any other
\* call, GetFile(k) succeeds, names the content file of v, that file holds
\* all the bytes of v, and the size returned is len(v).
C1_RoundTrip ==
  IsCall("Put") /\ cur.ok =>
    LET r == cGetFile(dir, cur.k, clock) IN
      /\ r.ok
      /\ r.file = cur.v
      /\ dir[DataName(r.file)].size = Size(cur.v)
      /\ r.size = Size(cur.v)

\* C1 happens: a Put of a non-empty value whose trim scanned and removed
\* files has returned.
C1_Witness ==
  IsCall("Put") /\ cur.scanned /\ cur.removed # {} /\ Size(cur.v) > 0

\* C2: after Put(k, v2) over an index that led to another value v1, Get(k)
\* returns the output id and the size of v2, so k no longer leads to v1.
C2_Overwrite ==
  IsCall("Put") /\ cur.old # 0 /\ cur.old # cur.v =>
    LET g == cGet(dir, cur.k, clock) IN
      /\ g.ok
      /\ g.out = SumID(cur.v)
      /\ g.size = Size(cur.v)
      /\ ValOfID(g.out) # cur.old

\* C2 happens: a Put has replaced an index that led to another value,
\* whose content file is still on disk.
C2_Witness ==
  /\ IsCall("Put") /\ cur.old # 0 /\ cur.old # cur.v
  /\ dir[DataName(cur.old)].exists

\* The files the scanning call found and did not write itself.
Found(nm) ==
  /\ dir[nm].exists
  /\ ~(cur'.op = "Put" /\ nm \in {IndexName(cur'.k), DataName(cur'.v)})
\* The entry of k as the scan finds it: its index and its content file.
EntryFiles(k) == {IndexName(k), DataName(Indexed(dir, k))}
FoundEntry(k) ==
  /\ Indexed(dir, k) # 0
  /\ \A nm \in EntryFiles(k) : Found(nm)
\* The size rule does not select the file.
NotOversize(nm) ==
  ~(cfg.trimSize > 0 /\ dir[nm].size > cfg.trimSize
      /\ dir[nm].mtime < clock - cfg.trimInterval)

\* C3 as stated: an entry whose files were written at t0 is gone after a
\* scan at a time later than t0 + trimLimit, and is still there after a
\* scan at a time earlier than t0 + trimLimit when neither the size rule
\* nor the maxSize pass applies.
C3_Original ==
  [][CallStep /\ cur'.scanned =>
       \A k \in Keys : FoundEntry(k) =>
         /\ (\A nm \in EntryFiles(k) : dir[nm].wtime + cfg.trimLimit < clock)
              => \A nm \in EntryFiles(k) : ~dir'[nm].exists
         /\ (/\ \A nm \in EntryFiles(k) :
                   clock < dir[nm].wtime + cfg.trimLimit /\ NotOversize(nm)
             /\ ~cur'.truncated)
              => \A nm \in EntryFiles(k) : dir'[nm].exists
    ]_vars

\* C3 amended: the age is that of the file's modification time, which a
\* read refreshes.  A file whose mtime is before now - trimLimit is gone
\* after the scan; a file whose mtime is not before it is still there when
\* neither the size rule nor the maxSize pass applies.
C3_Retention ==
  [][CallStep /\ cur'.scanned =>
       \A nm \in Names : Found(nm) =>
         /\ dir[nm].mtime < clock - cfg.trimLimit => ~dir'[nm].exists
         /\ (/\ ~(dir[nm].mtime < clock - cfg.trimLimit)
             /\ NotOversize(nm)
             /\ ~cur'.truncated) => dir'[nm].exists
    ]_vars

\* C3 happens: a scan removed an index by age alone (no size rule applies
\* to it, no maxSize pass ran) and kept another file.
C3_Witness ==
  /\ calls > 0 /\ cur.scanned /\ ~cur.truncated
  /\ cfg.trimSize > entrySize
  /\ \E k \in Keys : IndexName(k) \in cur.removed
  /\ \E nm \in Names : dir[nm].exists /\ dir[nm].mtime < cur.now

\* C4 as stated: with trimSize > 0, an entry whose content is larger than
\* trimSize and older than trimInterval, younger than trimLimit, is not
\* retrievable after the scan; an entry of that age whose content is
\* smaller than trimSize is kept whole.
Aged(nm) ==
  /\ dir[nm].mtime < clock - cfg.trimInterval
  /\ ~(dir[nm].mtime < clock - cfg.trimLimit)
C4_Original ==
  [][CallStep /\ cur'.scanned /\ cfg.trimSize > 0 =>
       \A k \in Keys :
         FoundEntry(k) /\ (\A nm \in EntryFiles(k) : Aged(nm)) =>
           LET v == Indexed(dir, k) IN
           /\ Size(v) > cfg.trimSize => ~cGetFile(dir', k, clock).ok
           /\ Size(v) < cfg.trimSize
                => \A nm \in EntryFiles(k) : dir'[nm].exists
    ]_vars

\* C4 amended: the size rule is applied to each file, the 175-byte index
\* record included.  An entry of that age with oversize content is not
\* retrievable after the scan; an entry of that age is kept whole when
\* neither its content nor its index record is larger than trimSize and
\* no maxSize pass runs.
C4_SizeEviction ==
  [][CallStep /\ cur'.scanned /\ cfg.trimSize > 0 =>
       \A k \in Keys :
         FoundEntry(k) /\ (\A nm \in EntryFiles(k) : Aged(nm)) =>
           LET v == Indexed(dir, k) IN
           /\ Size(v) > cfg.trimSize
                => ~dir'[DataName(v)].exists /\ ~cGetFile(dir', k, clock).ok
           /\ (Size(v) <= cfg.trimSize /\ entrySize <= cfg.trimSize
                 /\ ~cur'.truncated)
                => \A nm \in EntryFiles(k) : dir'[nm].exists
    ]_vars

\* C4 happens: a scan under trimSize > 0 removed an oversize content file
\* younger than trimLimit and kept the index record that leads to it.
C4_Witness ==
  /\ calls > 0 /\ cur.scanned /\ cfg.trimSize > 0
  /\ cur.now <= cfg.trimLimit
  /\ \E k \in Keys :
       /\ Indexed(dir, k) # 0
       /\ DataName(Indexed(dir, k)) \in cur.removed
       /\ Size(Indexed(dir, k)) > cfg.trimSize
       /\ dir[IndexName(k)].mtime < cur.now

\* C5: whenever the maxSize pass ran, the -a and -d files left on disk
\* when the trim returns total at most maxSize / 2.
C5_MaxSize == calls > 0 /\ cur.truncated => cur.disk <= cfg.maxSize \div 2

\* C6 as stated: of two consecutive Put calls less than trimInterval
\* apart, the later one's trim does not scan.
TwoPuts ==
  /\ calls > 1 /\ cur.op = "Put" /\ last.prev.op = "Put"
  /\ cfg.trimInterval > 0
  /\ cur.now - last.prev.now < cfg.trimInterval
C6_Original == TwoPuts => ~cur.scanned

\* C6 amended: of two consecutive Put calls less than trimInterval apart,
\* if the earlier one scanned, then the later one's trim does not scan,
\* provided the two are on the same handle or the earlier one's write of
\* trim.txt succeeded.
C6_Throttle ==
  TwoPuts /\ last.prev.scanned /\ (cur.h = last.prev.h \/ ~last.prev.terr)
    => ~cur.scanned /\ cur.removed = {}

\* C6 happens: a Put on another handle, less than trimInterval after a
\* Put that scanned, has returned without scanning.
C6_Witness ==
  TwoPuts /\ last.prev.scanned /\ cur.h # last.prev.h /\ ~cur.scanned
    /\ cur.now > last.prev.now

\* C7 as stated: every call of Trim scans.
C7_Original == IsCall("Trim") => cur.scanned

\* C7 amended: Trim is throttled as the trim of Put is.  It scans exactly
\* when the handle's own last trim is unset or at least trimInterval old
\* and trim.txt is missing, unparseable or holds a time at least
\* trimInterval old (always, when trimInterval is 0); otherwise it returns
\* nil without removing anything.
Recent(t) == clock - t < cfg.trimInterval
C7_TrimThrottled ==
  [][CallStep /\ cur'.op = "Trim" =>
       LET h == cur'.h
           mem == lastTrim[h] >= 0 /\ Recent(lastTrim[h])
           dsk == /\ cfg.trimInterval > 0 /\ trimTxt.exists
                  /\ ParseInt(trimTxt.data).ok
                  /\ Recent(ParseInt(trimTxt.data).t)
       IN /\ cur'.scanned <=> ~(mem \/ dsk)
          /\ ~cur'.scanned => cur'.ok /\ cur'.removed = {} /\ dir' = dir
    ]_vars

\* C7 happens: a Trim within trimInterval of the time in trim.txt has
\* returned nil without scanning.
C7_Witness ==
  /\ IsCall("Trim") /\ ~cur.scanned /\ cur.ok
  /\ trimTxt.exists /\ ParseInt(trimTxt.data).ok
  /\ \E nm \in Names : dir[nm].exists

\* A goroutine is in the scan of a trim (either pass).
Scanning(p) == pc[p].at \in {"list", "entry", "ulist", "uentry"}
\* Goroutine p reads trim.txt in this step.
TxtRead(p) == pc[p].at = "tread" /\ pc'[p].at # "tread"

\* C8 as stated: two processes on one directory never both run the scan
\* after reading the same stale timestamp in trim.txt.
C8_Original ==
  \A p, q \in Procs :
    (hof[p] # hof[q] /\ cfg.trimInterval > 0 /\ Scanning(p) /\ Scanning(q))
      => ~(/\ pc[p].seen.exists /\ ParseInt(pc[p].seen.data).ok
           /\ pc[q].seen = pc[p].seen)

\* C8: the read of trim.txt and the write of the new timestamp each hold
\* the lock of trim.txt for their own duration only: no process reads
\* trim.txt while another has truncated it and not yet written the new
\* timestamp (and at most one is between the two); the lock is not held
\* from the read to the write, so two processes can read the same stale
\* timestamp and both scan.
C8_LockExcludes ==
  [][/\ \A p \in Procs : TxtRead(p) => lock = 0
     /\ \A p, q \in Procs :
          pc'[p].at = "wwrite" /\ pc'[q].at = "wwrite" => p = q
    ]_vars

\* C8 happens: one process is about to read trim.txt while another process
\* holds its lock, having truncated the file.
C8_Witness ==
  \E p, q \in Procs :
    /\ hof[p] # hof[q]
    /\ pc[p].at = "tread" /\ lock = q /\ pc[q].at = "wwrite"
    /\ trimTxt.data = <<>>

\* C9: whatever the interleaving of the steps of Put, GetFile and trim of
\* several goroutines and handles on one directory, a GetFile(k) that
\* succeeds names the content file of a value v for which Put(k, v) was
\* called, and that file held all the bytes of v when GetFile examined it.
C9_NonCorruption ==
  \A p \in Procs :
    (pc[p].at = "done" /\ pc[p].op = "GetFile" /\ pc[p].ok)
      => /\ <<pc[p].k, pc[p].file>> \in puts
         /\ pc[p].fsize = Size(pc[p].file)

\* C9 happens: a GetFile succeeded on one handle while a call on another
\* handle was in the middle of writing a content file or of a scan.
C9_Witness ==
  \E p, q \in Procs :
    /\ hof[p] # hof[q]
    /\ pc[p].at = "done" /\ pc[p].op = "GetFile" /\ pc[p].ok
    /\ Size(pc[p].file) > 0
    /\ pc[q].at \in {"entry", "uentry", "wbody", "wlast"}

\* C10: Get, GetBytes and GetFile do not read or write trim.txt, do not
\* change lastTrim of any handle, and neither create nor delete a file of
\* the cache directory.
C10_ReadsFrame ==
  [][CallStep /\ cur'.op \in Reads =>
       /\ ~cur'.rd /\ ~cur'.scanned
       /\ trimTxt' = trimTxt
       /\ lastTrim' = lastTrim
       /\ \A nm \in Names : dir'[nm].exists <=> dir[nm].exists
    ]_vars

\* C10 happens: a Get found an entry at a time when a trim on a fresh
\* handle would have scanned and removed a file.
C10_Witness ==
  /\ IsCall("Get") /\ cur.ok
  /\ \E nm \in Names : dir[nm].exists /\ dir[nm].mtime < clock - cfg.trimLimit
  /\ \A h \in Handles : ~Throttled(h, clock)

\* A goroutine is executing the body of a call: it holds C.mu.
InBody(p) == pc[p].at \notin {"idle", "lock"}

\* C11: on one handle at most one call is executing its body at any
\* instant: two goroutines of one handle are never both past C.mu.Lock, so
\* a handle never runs two trims at once and no read on it runs between
\* the trim of a Put and that Put's write; the goroutine in the body is
\* the holder of the mutex.
C11_MutualExclusion ==
  \A p, q \in Procs :
    /\ (p # q /\ hof[p] = hof[q]) => ~(InBody(p) /\ InBody(q))
    /\ InBody(p) => mu[hof[p]] = p

\* C11 happens: a read waits for the mutex of its handle while a Put on
\* that handle is between its trim and its write.
C11_Witness ==
  \E p, q \in Procs :
    /\ p # q /\ hof[p] = hof[q]
    /\ pc[p].op = "Put" /\ pc[p].at = "copy"
    /\ pc[q].op \in Reads /\ pc[q].at = "lock"

\* The index of k is there and leads to a content file that is missing.
Dangling(d, k) ==
  /\ d[IndexName(k)].exists /\ d[IndexName(k)].size = entrySize
  /\ ~d[DataName(Indexed(d, k))].exists

\* C12: a GetFile(k) that finds the index of k but not its content file
\* fails with the outcome of a key that has no index (not found, no file
\* name, no entry) and leaves the index file of k as it was, apart from
\* its access time; no other file is created or removed.
C12_DanglingMiss ==
  [][\A k \in Keys :
       (CallStep /\ cur'.op = "GetFile" /\ cur'.k = k /\ Dangling(dir, k))
         => /\ ~cur'.ok /\ cur'.file = 0 /\ cur'.out = 0 /\ cur'.size = 0
            /\ Dangling(dir', k)
            /\ dir'[IndexName(k)].out = dir[IndexName(k)].out
            /\ \A nm \in Names : dir'[nm].exists <=> dir[nm].exists
    ]_vars

\* C12 happens: a GetFile has just missed on a key whose index file is
\* still there while the content file it names is gone.
C12_Witness ==
  /\ IsCall("GetFile") /\ ~cur.ok
  /\ Dangling(dir, cur.k)
  /\ cur.now = clock

\* C13 as stated: when the write of trim.txt at the end of a trim fails,
\* the Put or Trim that ran the trim does not return an error.
C13_NotFatal ==
  (calls > 0 /\ cur.op \in {"Put", "Trim"} /\ cur.terr) => cur.ok

\* Goroutine p takes a step.
Steps(p) == pc'[p] # pc[p]
\* The entry that the scan of p is about to examine is gone.
EntryGone(p) ==
  pc[p].at \in {"entry", "uentry"} /\ ~dir[Head(pc[p].ents)].exists

TxtCorrupt == trimTxt.exists /\ ~ParseInt(TrimSpace(trimTxt.data)).ok
TxtAhead ==
  /\ trimTxt.exists /\ ParseInt(TrimSpace(trimTxt.data)).ok
  /\ ParseInt(TrimSpace(trimTxt.data)).t > clock
\* This step is a Put or Trim on a handle whose trim reads trim.txt.
ConsultsTxt ==
  /\ CallStep /\ cur'.op \in {"Put", "Trim"}
  /\ cfg.trimInterval > 0 /\ ~skipInMemory(cur'.h, clock)

\* C15 as stated: a trim that finds trim.txt corrupt, or holding a time
\* after the current clock, is not skipped: it scans.
C15_ScansAnyway ==
  [][ConsultsTxt /\ (TxtCorrupt \/ TxtAhead) => cur'.scanned]_vars

\* The path decodes to the ActionID of description k.
PathOf(path, k) ==
  WellFormed(DecodeString(path)) /\ KeyOfID(DecodeString(path).b[1]) = k
\* The entry of k in d is complete and leads to value v.
Stored(d, k, v) ==
  /\ Indexed(d, k) = v /\ d[IndexName(k)].osize = Size(v)
  /\ d[DataName(v)].exists /\ d[DataName(v)].size = Size(v)

\* C16: a POST to the path of an ActionID with a non-empty body b is
\* answered 201 and leaves b stored under that ActionID; a GET on the same
\* path that is the next request (nothing evicted in between) is answered
\* 200 with Content-Type application/octet-stream, Content-Length len(b)
\* and the body b.
C16_HttpRoundTrip ==
  [][\A k \in Keys :
       /\ (CallStep /\ cur'.op = "POST" /\ PathOf(cur'.path, k)
            /\ Size(cur'.v) > 0)
            => cur'.code = 201 /\ Stored(dir', k, cur'.v)
       /\ (cur.op = "POST" /\ cur.code = 201 /\ PathOf(cur.path, k)
            /\ CallStep /\ cur'.op = "GET" /\ cur'.path = cur.path)
            => /\ cur'.code = 200
               /\ cur'.ctype = "application/octet-stream"
               /\ cur'.clen = Size(cur.v)
               /\ cur'.body = cur.v
    ]_vars

\* C16 happens: a GET was answered 200 right after the POST that stored
\* its content, some time later.
C16_Witness ==
  /\ cur.op = "GET" /\ cur.code = 200 /\ cur.clen = Size(cur.body)
  /\ last.prev.op = "POST" /\ last.prev.now < cur.now

\* k has no usable entry in d: no index file, or an index file whose
\* content file is missing or not of the recorded size.
Unusable(d, k) ==
  \/ ~d[IndexName(k)].exists
  \/ ~d[DataName(Indexed(d, k))].exists
  \/ d[DataName(Indexed(d, k))].size # d[IndexName(k)].osize

\* C17: a GET whose path decodes to a well-formed ActionID that has no
\* usable entry (never written, evicted, or an index whose content file
\* is missing) is answered 404, with no content, and removes nothing.
C17_GetMiss ==
  [][\A k \in Keys :
       (CallStep /\ cur'.op = "GET" /\ PathOf(cur'.path, k)
        /\ Unusable(dir, k))
         => /\ cur'.code = 404 /\ cur'.body = 0 /\ cur'.clen = 0
            /\ \A nm \in Names : dir'[nm].exists <=> dir[nm].exists
    ]_vars

\* C17 happens: a GET was answered 404 for a key whose index file is
\* there while its content file was evicted.
C17_Witness ==
  /\ cur.op = "GET" /\ cur.code = 404 /\ cur.now = clock
  /\ cur.k \in Keys /\ Dangling(dir, cur.k)

\* The request left the cache directory and the handle as they were and
\* made no call on the cache.
Untouched ==
  /\ cur'.did = "none" /\ ~cur'.rd /\ ~cur'.scanned
  /\ dir' = dir /\ trimTxt' = trimTxt /\ lastTrim' = lastTrim

\* The paths that are the encoding of an identifier: as many characters
\* of the alphabet as HashSize bytes need, then the padding.
IDPath(path) ==
  /\ Len(path) = 3
  /\ path[1] \in Digits /\ path[2] \in Digits /\ path[3] = PadChar

\* C18: a POST with an empty body, on the path of an identifier, is
\* answered 412; Put is not called, no file of the cache is created,
\* replaced or removed, and no trim runs (trim.txt is neither read nor
\* written and the time of the last trim stays).
C18_EmptyPost ==
  [][(CallStep /\ cur'.op = "POST" /\ IDPath(cur'.path)
      /\ Size(cur'.v) = 0)
       => cur'.code = 412 /\ Untouched
    ]_vars

\* C18 happens: an empty POST was answered 412 for a key that has an
\* entry with other content, at a time when a trim is not throttled.
C18_Witness ==
  /\ cur.op = "POST" /\ cur.code = 412 /\ Size(cur.v) = 0
  /\ cur.k \in Keys /\ Indexed(dir, cur.k) \notin {0, cur.v}
  /\ ~Throttled(1, clock)

\* C19: a request whose path is not the encoding of an identifier (a
\* character outside the alphabet, missing padding, or a decoded length
\* other than HashSize) is answered 400 whatever its method, with no
\* lookup and no insertion: longer input is not cut to fit and shorter
\* input is not filled up.
C19_Malformed ==
  [][(CallStep /\ cur'.op \in Methods /\ ~IDPath(cur'.path))
       => cur'.code = 400 /\ cur'.k = 0 /\ Untouched
    ]_vars

\* C19 happens: a path that decodes, to more bytes than an identifier
\* has, was answered 400 while the key of its first byte has an entry.
C19_Witness ==
  /\ cur.op \in {"GET", "POST"} /\ cur.code = 400
  /\ DecodeString(cur.path).ok
  /\ Len(DecodeString(cur.path).b) > HashSize
  /\ dir[IndexName(KeyOfID(DecodeString(cur.path).b[1]))].exists

\* C20 as stated: a request whose method is neither GET nor POST is
\* answered 405, for every request path.
C20_Original ==
  (calls > 0 /\ cur.op \in Methods \ {"GET", "POST"}) => cur.code = 405

\* C20: a request whose method is neither GET nor POST is answered 405
\* when its path is the encoding of an identifier and 400 when it is not
\* (the path is decoded before the method is looked at); either way the
\* cache is not touched.
C20_OtherMethod ==
  [][(CallStep /\ cur'.op \in Methods \ {"GET", "POST"})
       => /\ cur'.code = IF IDPath(cur'.path) THEN 405 ELSE 400
          /\ Untouched
    ]_vars

\* C20 happens: a request of another method, on the path of a key that
\* has an entry, was answered 405.
C20_Witness ==
  /\ cur.op \in Methods \ {"GET", "POST"} /\ cur.code = 405
  /\ cur.k \in Keys /\ dir[IndexName(cur.k)].exists

\* C21: a GET for an identifier whose entry is complete and whose content
\* file has length zero is answered 404 with no content, not 200.
C21_ZeroLength ==
  [][\A k \in Keys :
       (CallStep /\ cur'.op = "GET" /\ PathOf(cur'.path, k)
        /\ Indexed(dir, k) \in Vals /\ Size(Indexed(dir, k)) = 0
        /\ Stored(dir, k, Indexed(dir, k)))
         => /\ cur'.did = "GetFile" /\ cur'.ok
            /\ cur'.code = 404 /\ cur'.body = 0 /\ cur'.clen = 0
    ]_vars

\* C21 happens: GetFile found the entry, its file is empty, and the GET
\* was answered 404.
C21_Witness ==
  /\ cur.op = "GET" /\ cur.code = 404 /\ cur.ok /\ cur.now = clock
  /\ cur.k \in Keys /\ Stored(dir, cur.k, cur.file) /\ Size(cur.file) = 0

\* The last call is a request to the server.
IsRequest == calls > 0 /\ cur.op \in Methods
Success == {200, 201}

IsExec == calls > 0 /\ cur.op = "Exec"
\* A lookup of k in d finds a complete entry whose content is v.
Hit(d, k, v) == cGetFile(d, k, clock).ok /\ cGetFile(d, k, clock).file = v

\* C23 as stated: when the local lookup misses and the command then runs
\* successfully with a non-empty output, the output is stored under the
\* identifier, locally or on the server, with or without a server.
C23_MissStores ==
  (IsExec /\ ~cur.hit /\ cur.ran /\ cur.ok /\ Size(cur.v) > 0)
    => Stored(dir, cur.k, cur.v) \/ srv[cur.k] = cur.v

\* C24: when GetFile gives a file and the file opens, the wrapper delivers
\* the bytes of that file, once, and returns nil; it does not run the
\* command, does not contact the server, calls neither Put nor trim, and
\* creates, removes or resizes no file of the cache.
C24_HitReplays ==
  [][(CallStep /\ cur'.op = "Exec" /\ cur'.hit /\ cur'.env.open)
       => /\ cur'.deliv = << Indexed(dir, cur'.k) >>
          /\ cur'.ok /\ cur'.via = "local"
          /\ ~cur'.ran /\ ~cur'.contact /\ ~cur'.posted /\ ~cur'.putl
          /\ ~cur'.scanned
          /\ srv' = srv /\ trimTxt' = trimTxt
          /\ \A nm \in Names :
               /\ dir'[nm].exists <=> dir[nm].exists
               /\ dir[nm].exists => dir'[nm].size = dir[nm].size
    ]_vars

\* C24 happens: a hit was replayed although a server is configured that
\* has another content for the key.
C24_Witness ==
  /\ IsExec /\ cur.via = "local" /\ cur.flags.server
  /\ srv[cur.k] # 0 /\ cur.deliv # << srv[cur.k] >>

\* C25: a run whose output is empty makes no local Put and no POST, with
\* or without a server and whatever the command's exit: the server's
\* entries, trim.txt and the index file of the key stay, and no lookup
\* of the key that missed before hits after.
C25_EmptyNotCached ==
  [][(CallStep /\ cur'.op = "Exec" /\ cur'.ran /\ Size(cur'.v) = 0)
       => /\ ~cur'.posted /\ ~cur'.putl /\ ~cur'.scanned
          /\ srv' = srv /\ trimTxt' = trimTxt
          /\ dir'[IndexName(cur'.k)].exists <=> dir[IndexName(cur'.k)].exists
          /\ Indexed(dir', cur'.k) = Indexed(dir, cur'.k)
          /\ \A v \in Vals : Hit(dir', cur'.k, v) => Hit(dir, cur'.k, v)
    ]_vars

\* C25 happens: with a server configured that was reached and had no
\* entry, the command ran on a miss, exited with success and printed
\* nothing.
C25_Witness ==
  /\ IsExec /\ cur.ran /\ cur.ok /\ Size(cur.v) = 0
  /\ ~cur.hit /\ cur.flags.server /\ cur.env.get

\* C26 as stated: a FileCache.Get(k) that succeeds returns the data of
\* the most recent FileCache.Put for k.
C26_RoundTrip ==
  (calls > 0 /\ cur.op = "FileCache.Get" /\ cur.ok)
    => cur.file = fc.latest[cur.k]

\* The files that are not entries stay as they are.
ForeignKept == \A nm \in ForeignNames : dir'[nm] = dir[nm]

FreshOnDisk ==
  /\ trimTxt.exists /\ ParseInt(TrimSpace(trimTxt.data)).ok
  /\ clock - ParseInt(TrimSpace(trimTxt.data)).t < cfg.trimInterval
\* The handle's own lastTrim is set and less than trimInterval old.
FreshInMemory(h) ==
  lastTrim[h] >= 0 /\ clock - lastTrim[h] < cfg.trimInterval

Retained(d) == {nm \in Names : d[nm].exists}
\* The directory the calls of SpecScan began with.
InitialDir ==
  IF puts = Fresh.puts THEN Fresh.dir
  ELSE IF puts = Used.puts THEN Used.dir ELSE Full.dir
\* No call is under way and at least one Trim was made.
Quiet == calls > 0 /\ \A p \in Procs : pc[p].at \in {"idle", "done"}

\* A second scan of any directory, at the same time and with the same
\* options, removes nothing the first one kept.
ScanIdempotent ==
  Retained(ScanOf(ScanOf(dir, clock), clock)) = Retained(ScanOf(dir, clock))

\* C29: the scan is idempotent: a second scan with the same clock and
\* options and no write in between deletes no further file, and Trim
\* calls that scan redundantly, also from two processes, leave the files
\* that one scan leaves.
C29_Idempotent ==
  /\ ScanIdempotent
  /\ Quiet => Retained(dir) = Retained(ScanOf(InitialDir, clock))

\* C30: the trim inside Put is over before the entry is written: when
\* Put(k, v) returns, the index file of k and the content file of v exist
\* as this Put wrote them, and a GetFile(k) that is the next call succeeds
\* with the content file of v, whatever the clock and the options.
C30_TrimBeforeWrite ==
  [][/\ (CallStep /\ cur'.op = "Put") =>
          /\ dir'[IndexName(cur'.k)].exists
          /\ dir'[IndexName(cur'.k)].wtime = clock
          /\ dir'[IndexName(cur'.k)].out = SumID(cur'.v)
          /\ complete(dir'[DataName(cur'.v)], Size(cur'.v))
     /\ (CallStep /\ IsCall("Put") /\ cur'.op = "GetFile"
           /\ cur'.k = cur.k) =>
          /\ cur'.ok
          /\ cur'.file = cur.v
          /\ cur'.size = Size(cur.v)
    ]_vars

\* C30 happens: GetFile(k) succeeded as the next call after a Put(k, v)
\* whose trim scanned, at a later time than the Put.
C30_Witness ==
  /\ IsCall("GetFile") /\ cur.ok
  /\ last.prev.op = "Put" /\ last.prev.scanned
  /\ cur.now > last.prev.now
  /\ cur.file \in Vals /\ Size(cur.file) > 0

\* Goroutine p takes the lock of trim.txt for the write that ends its trim;
\* the file is truncated and then holds the time p read when its trim began.
Overwrites(p) == pc[p].at = "wlock" /\ pc'[p].at = "wwrite"

\* C31: the time in trim.txt never moves backwards: every write of
\* trim.txt that ends a trim stores a time that is not before the time the
\* file held, under every interleaving of the trims of several goroutines
\* whose clock does not go back.
C31_Monotone ==
  [][\A p \in Procs :
       (Overwrites(p) /\ ParseInt(TrimSpace(trimTxt.data)).ok)
         => pc[p].now >= ParseInt(TrimSpace(trimTxt.data)).t
    ]_vars

\* A GET handler has answered.
Answered(p) == pc[p].at = "sent"

\* C32: a GET whose content file a trim may remove after GetFile returned
\* is answered 404, or 200 with the whole content the index led to; never
\* 500 and never 200 with fewer bytes.
C32_GetUnderTrim ==
  \A p \in Procs :
    Answered(p) =>
      \/ pc[p].code = 404
      \/ pc[p].code = 200 /\ pc[p].body = pc[p].osize

C34_FailedRunNotCached ==
  [][(CallStep /\ cur'.op = "Exec" /\ cur'.ran /\ cur'.fail = "run")
       => /\ ~cur'.ok
          /\ ~cur'.posted /\ ~cur'.putl /\ ~cur'.scanned
          /\ srv' = srv /\ trimTxt' = trimTxt
          /\ \A nm \in Names :
               /\ dir'[nm].exists <=> dir[nm].exists
               /\ dir[nm].exists =>
                    /\ dir'[nm].size = dir[nm].size
                    /\ dir'[nm].wtime = dir[nm].wtime
          /\ \A v \in Vals : Hit(dir', cur'.k, v) => Hit(dir, cur'.k, v)
    ]_vars

\* C34 happens: the command failed in an invocation with a server
\* configured, for a key whose content file GetFile had named (so that a
\* pending file for it was made) but that could not be opened.
C34_Witness ==
  /\ IsExec /\ cur.ran /\ cur.fail = "run" /\ ~cur.ok
  /\ cur.hit /\ cur.flags.server

\* C35: the consumer (standard output, or the file of -o) receives the
\* command's standard output, each byte once, when the command is executed
\* on a miss, and receives the stored content, once, when the output is
\* replayed on a hit.
C35_DeliveredOnce ==
  (IsExec /\ cur.ok) =>
    /\ cur.ran => cur.deliv = << cur.v >>
    /\ cur.via = "local" => cur.deliv = << cur.file >>
    /\ cur.via = "server" => Len(cur.deliv) = 1

\* C36: the description is a function of the arguments and the hash of
\* the standard input, and over arguments without a NUL byte it is
\* injective: an invocation with the same description has the same
\* argument list and the same presence and value of the stdin hash.
C36_Injective ==
  IsCall("Key") =>
    /\ cur.desc = Description(cur.args, cur.stdin)
    /\ \A args \in ArgLists, stdin \in Stdins :
         Description(args, stdin) = cur.desc
           => args = cur.args /\ stdin = cur.stdin

\* C36 happens: the description of two arguments was built whose bytes,
\* written without separators, are those of a single argument, with a
\* stdin hash that is a NUL byte.
C36_Witness ==
  /\ IsCall("Key") /\ Len(cur.args) = 2
  /\ Joined(cur.args) \in Strings /\ Joined(cur.args) # <<>>
  /\ cur.stdin = <<Nul>>

====
